---- MODULE Spec2Model ----
(***************************************************************************)
(* State-machine model of the survey export orchestrator                   *)
(* (SurveyDataExporter.run_export and the stages it drives) of the         *)
(* Vibrent Health API reference client.                                    *)
(*                                                                         *)
(* The exporter is single threaded: pc is the position of the one thread   *)
(* inside run_export.  Every call to the remote service (survey fetch,     *)
(* export request, status query, download) is one step whose result is    *)
(* chosen nondeterministically among the results the client can hand back  *)
(* (a value, or a raised exception).                                       *)
(***************************************************************************)
EXTENDS Integers, Sequences, FiniteSets, TLC

\* ------------------------------------------------------------------ bounds
MaxSurveys == 2       \* longest survey list the remote service returns
MaxWait == 1          \* largest configured max_wait_time, in clock ticks
TicksPerSecond == 2   \* clock readings told apart within one second
MaxRuns == 2          \* exporters constructed one after the other
MaxFiles == 2         \* files followed on disk

\* platformFormIds and export ids are only compared for equality (dict keys,
\* set members, list membership): there are as many of each as there can be
\* surveys in a run.
SurveyIds == 1..MaxSurveys
ExportIds == 1..MaxSurveys

\* Python None for an optional numeric setting.
None == 0 - 1

\* The clock saturates one tick above the largest budget, so that an
\* exceeded budget stays exceeded while the state space stays finite.
MaxClock == MaxWait + 1

\* time.sleep(self.polling_interval): one clock tick per polling interval.
PollingInterval == 1

\* ------------------------------------------------------------- constants
SUBMITTED == "SUBMITTED"
IN_PROGRESS == "IN_PROGRESS"
COMPLETED == "COMPLETED"
FAILED == "FAILED"
\* ExportStatus.from_dict fills a missing status with "UNKNOWN".
UNKNOWN == "UNKNOWN"

Statuses == {SUBMITTED, IN_PROGRESS, COMPLETED, FAILED, UNKNOWN}

\* ------------------------------------------------------------------ state
VARIABLES
  pc,                 \* position of the thread inside run_export
  cfg,                \* resolved configuration (fixed for the run)
  surveys,            \* platformFormIds of the fetched surveys, in order
  filtered_surveys,   \* platformFormIds kept by filter_surveys, in order
  req_index,          \* request_exports: index of the next survey to submit
  export_mapping,     \* dict platformFormId -> export id, in insertion order
  pending_exports,    \* wait_for_exports_completion: set of export ids
  todo,               \* ids of list(pending_exports) not yet queried
  completed_exports,  \* dict export id -> status, as its keys in order
  failed_exports,     \* list of export ids
  clock,              \* time.time(), in ticks
  start_wait_time,    \* clock value when polling started
  poll_exit,          \* how the polling loop ended
  dl_index,           \* download_exports: index of the next export
  downloaded_files,   \* list of downloaded archives (by export id)
  export_details_by_survey, \* dict platformFormId -> export id (0: no key)
  zips_on_disk,       \* archives present in the output directory
  export_metadata,    \* the run report being accumulated
  report,             \* the report file on disk, or NoReport
  logged,             \* error / warning messages logged so far
  last_query,         \* history: the latest status query and its result
  waited,             \* history: ids that reported SUBMITTED / IN_PROGRESS
  obs_log,            \* history: terminal results of status queries
  submit_log,         \* history: export requests sent, with their result
  download_log,       \* history: downloads attempted, with their result
  include_call,       \* history: the latest call of should_include_survey
  now,                \* datetime.now(), in ticks
  output_dirs,        \* when each exporter made its output directory
  fs_dirs,            \* directories known to exist (made by an exporter)
  fs_files,           \* files written by downloads and extractions
  extract_log,        \* history: what extraction did with each archive
  current_status_counts,    \* poller: counts of the iteration under way
  cumulative_status_counts, \* poller: counts reported after an iteration
  doc,                \* the configuration document as loaded from the file
  network,            \* requests sent over the network so far
  date_range,         \* history: the latest result of get_date_range
  access_token,       \* AuthenticationManager.access_token
  token_expires_at,   \* AuthenticationManager.token_expires_at
  token_call,         \* history: the latest call of get_valid_token
  environment         \* the environment name the client was constructed for

vars == << pc, cfg, surveys, filtered_surveys, req_index, export_mapping,
           pending_exports, todo, completed_exports, failed_exports, clock,
           start_wait_time, poll_exit, dl_index, downloaded_files,
           export_details_by_survey, zips_on_disk, export_metadata, report,
           logged, last_query, waited, obs_log, submit_log, download_log,
           include_call, now, output_dirs, fs_dirs, fs_files, extract_log,
           current_status_counts, cumulative_status_counts,
           doc, network, date_range, access_token, token_expires_at,
           token_call, environment >>

\* The configuration document, the requests sent and the authentication
\* manager: what the construction of the client and its calls work on.
client_side == << doc, network, date_range, access_token, token_expires_at,
                  token_call, environment >>

\* Where the files of the exporters are.
placement == << now, output_dirs, fs_dirs, fs_files >>

\* The state of a run of run_export and of the filter, but for where the
\* run is, its configuration and the clock.
run_state == << surveys, filtered_surveys, req_index, export_mapping,
                pending_exports, todo, completed_exports, failed_exports,
                start_wait_time, poll_exit, dl_index, downloaded_files,
                export_details_by_survey, zips_on_disk, export_metadata,
                report, logged, last_query, waited, obs_log, submit_log,
                download_log, include_call, extract_log,
                current_status_counts, cumulative_status_counts >>

\* The status counts the poller keeps for its progress message.
polling_counts == << current_status_counts, cumulative_status_counts >>

\* What the stages of run_export before and after extraction leave alone:
\* the filter call history, the directory naming and file placement
\* followed in OutputSpec, the extraction history and the client's side.
outside == << include_call, placement, extract_log, client_side >>

\* ------------------------------------------------ configuration document
\* The sections _validate_config requires, and the two environment names.
RequiredSections == { "environment", "auth", "api", "export", "output" }
STAGING == "staging"
PRODUCTION == "production"

\* TimeConstants.TOKEN_REFRESH_BUFFER and MS_PER_DAY, the default of
\* expires_in and the default of default_days_back.
TOKEN_REFRESH_BUFFER == 300
MS_PER_DAY == 24 * 60 * 60 * 1000
DefaultExpiresIn == 3600
DefaultDaysBack == 30

\* One entry of environment.environments: its value is a mapping with the
\* keys `keys`, or null; `urls` tells what the two URLs are: "real",
\* "placeholder" (not a URL: the text the default file is created with) or
\* "blank" (null or empty).
EnvSettings(name, kind, keys, urls) ==
  [ name |-> name, kind |-> kind, keys |-> keys, urls |-> urls ]

BothUrls == { "base_url", "token_url" }
DateKeys == { "default_days_back", "absolute_start_date", "absolute_end_date" }

\* The document _create_default_config writes (config.py 64-115), as
\* yaml.safe_load reads it back.
\*   file          what is found where the configuration file is looked for
\*   top           the kind of value the whole document is
\*   sections      the keys of the document (mapping), its items (list) or
\*                 the section names that occur in it (text)
\*   environment   the kind of value of the environment section
\*   env_keys      the keys of the environment section (or the names that
\*                 occur in it when it is a text)
\*   default       environment.default
\*   environments  the kind of value of environment.environments
\*   declared      the entries of environment.environments, in order
\*   refresh_buffer            auth.refresh_buffer
\*   date_keys     the keys of export.date_range
\*   absolute_start_date, absolute_end_date, default_days_back
\*                 their values where they are keys: "None" and None for
\*                 null, "date" for a value that YAML reads as a date
DefaultDoc ==
  [ file |-> "found",
    top |-> "mapping",
    sections |-> RequiredSections \cup { "metadata" },
    environment |-> "mapping",
    env_keys |-> { "default", "environments" },
    default |-> STAGING,
    environments |-> "mapping",
    declared |-> << EnvSettings(STAGING, "mapping", BothUrls, "placeholder"),
                    EnvSettings(PRODUCTION, "mapping", BothUrls, "placeholder") >>,
    refresh_buffer |-> TOKEN_REFRESH_BUFFER,
    date_keys |-> DateKeys,
    absolute_start_date |-> "None",
    absolute_end_date |-> "None",
    default_days_back |-> DefaultDaysBack ]

\* The default document with the URLs filled in.
ValidDoc ==
  [ DefaultDoc EXCEPT
      !.declared = << EnvSettings(STAGING, "mapping", BothUrls, "real"),
                      EnvSettings(PRODUCTION, "mapping", BothUrls, "real") >> ]

\* _load_config (config.py 122-145): every failure to open, read or parse
\* the file, and an empty document, is raised as ConfigurationError.
load_config(d) ==
  IF d.file \in { "unreadable", "bad_yaml" } THEN "ConfigurationError"
  ELSE IF d.top = "empty" THEN "ConfigurationError"
  ELSE "ok"

\* The loop over environment.environments (config.py 173-177) from entry i
\* on: `in` on a null entry raises TypeError.
RECURSIVE ValidateDeclared(_, _)
ValidateDeclared(d, i) ==
  IF i > Len(d.declared) THEN "ok"
  ELSE IF d.declared[i].kind # "mapping" THEN "TypeError"
  ELSE IF "base_url" \notin d.declared[i].keys THEN "ConfigurationError"
  ELSE IF "token_url" \notin d.declared[i].keys THEN "ConfigurationError"
  ELSE ValidateDeclared(d, i + 1)

\* _validate_config (config.py 147-177), statement by statement, with what
\* each Python operation does on the kind of value it meets.
validate_config(d) ==
  \* 157-159: `section not in self.config`
  IF d.top = "number" THEN "TypeError"
  ELSE IF ~ (RequiredSections \subseteq d.sections) THEN "ConfigurationError"
  \* 162: self.config["environment"]
  ELSE IF d.top # "mapping" THEN "TypeError"
  \* 163: `"default" not in env_config`
  ELSE IF d.environment = "null" THEN "TypeError"
  ELSE IF "default" \notin d.env_keys THEN "ConfigurationError"
  \* 166: env_config["default"]
  ELSE IF d.environment # "mapping" THEN "TypeError"
  \* 167-168
  ELSE IF d.default \notin { STAGING, PRODUCTION } THEN "ConfigurationError"
  \* 170-171
  ELSE IF "environments" \notin d.env_keys THEN "ConfigurationError"
  \* 173: env_config["environments"].items()
  ELSE IF d.environments # "mapping" THEN "AttributeError"
  ELSE ValidateDeclared(d, 1)

\* The file found by _find_config_file (config.py 42-58): when there is
\* none, the default document is written and is the one loaded.
find_config_file(d) == IF d.file = "absent" THEN DefaultDoc ELSE d

\* ConfigManager.__init__ (config.py 37-40): the exception it raises, or
\* "ok".
config_manager_init(d) ==
  IF d.file = "uncreatable" THEN "OSError"
  ELSE IF load_config(find_config_file(d)) # "ok"
    THEN load_config(find_config_file(d))
    ELSE validate_config(find_config_file(d))

\* The documents followed for loading and validation: the valid one with
\* one thing changed.
ValidationDocs ==
  { ValidDoc, DefaultDoc }
  \cup { [ ValidDoc EXCEPT !.file = f ] :
           f \in { "absent", "uncreatable", "unreadable", "bad_yaml" } }
  \cup { [ ValidDoc EXCEPT !.top = t, !.sections = x ] :
           t \in { "empty", "number" }, x \in { {} } }
  \cup { [ ValidDoc EXCEPT !.top = t, !.sections = x ] :
           t \in { "list", "text" }, x \in { { "environment" }, RequiredSections } }
  \cup { [ ValidDoc EXCEPT !.sections = RequiredSections \ { x } ] :
           x \in RequiredSections }
  \cup { [ ValidDoc EXCEPT !.environment = k, !.env_keys = x ] :
           k \in { "null" }, x \in { {} } }
  \cup { [ ValidDoc EXCEPT !.environment = k, !.env_keys = x ] :
           k \in { "mapping", "text" },
           x \in SUBSET { "default", "environments" } }
  \cup { [ ValidDoc EXCEPT !.default = x ] : x \in { PRODUCTION, "dev" } }
  \cup { [ ValidDoc EXCEPT !.environments = "null", !.declared = << >> ] }
  \cup { [ ValidDoc EXCEPT !.declared = x ] :
           x \in { << >>,
                   << EnvSettings(PRODUCTION, "mapping", BothUrls, "real") >>,
                   << EnvSettings(STAGING, "mapping", BothUrls, "blank") >>,
                   << EnvSettings(STAGING, "null", {}, "blank") >> } }
  \cup { [ ValidDoc EXCEPT !.declared =
             << EnvSettings(STAGING, "mapping", BothUrls, "real"),
                EnvSettings("dev", "mapping", k, "real") >> ] :
           k \in SUBSET BothUrls }

\* ------------------------------------------------------------ date range
\* A number of milliseconds, days * MS_PER_DAY + rest with
\* 0 <= rest < MS_PER_DAY: Python's integers are unbounded, and an epoch
\* time in milliseconds is kept here in two digits to base MS_PER_DAY.
Ms(days, rest) == [ days |-> days, rest |-> rest ]

\* a - b and d * MS_PER_DAY on such numbers.
MsSub(a, b) ==
  IF a.rest >= b.rest
    THEN Ms(a.days - b.days, a.rest - b.rest)
    ELSE Ms(a.days - b.days - 1, a.rest + MS_PER_DAY - b.rest)
DaysMs(d) == Ms(d, 0)

\* The texts datetime.fromisoformat accepts, and the day each one names
\* (days since the epoch).
IsoDates == { "2024-01-01", "2024-01-31" }
IsoDay(text) == IF text = "2024-01-01" THEN 19723 ELSE 19753

\* int(datetime.fromisoformat(text).timestamp() * 1000): midnight of that
\* day.
iso_timestamp_ms(text) == Ms(IsoDay(text), 0)

\* The exception datetime.fromisoformat raises for a value, or "ok".
fromisoformat(value) ==
  IF value = "date" THEN "TypeError"
  ELSE IF value \notin IsoDates THEN "ValueError"
  ELSE "ok"

\* Python truthiness of an optional text: None and "" are falsy.
TruthyText(x) == x # "None" /\ x # ""

\* date_config.get(key) and date_config.get("default_days_back", 30).
absolute_date(d, key) ==
  IF key \notin d.date_keys THEN "None"
  ELSE IF key = "absolute_start_date" THEN d.absolute_start_date
  ELSE d.absolute_end_date
days_back(d) ==
  IF "default_days_back" \in d.date_keys THEN d.default_days_back
  ELSE DefaultDaysBack

\* What get_date_range returns or raises.
DateRange(outcome, start_time, end_time) ==
  [ outcome |-> outcome, start_time |-> start_time, end_time |-> end_time ]
NoRange == DateRange("none", Ms(0, 0), Ms(0, 0)) @@ [ at |-> Ms(0, 0) ]
Raised(exception) == DateRange(exception, Ms(0, 0), Ms(0, 0))

\* Variant of get_date_range: one absolute date is enough.
get_date_range_EitherDate(d, t) ==
  LET absolute_start == absolute_date(d, "absolute_start_date")
      absolute_end == absolute_date(d, "absolute_end_date")
  IN  IF TruthyText(absolute_start) \/ TruthyText(absolute_end)
        THEN IF fromisoformat(absolute_start) # "ok"
               THEN Raised(fromisoformat(absolute_start))
             ELSE IF fromisoformat(absolute_end) # "ok"
               THEN Raised(fromisoformat(absolute_end))
             ELSE DateRange("ok", iso_timestamp_ms(absolute_start),
                            iso_timestamp_ms(absolute_end))
        ELSE IF days_back(d) = None THEN Raised("TypeError")
        ELSE DateRange("ok", MsSub(t, DaysMs(days_back(d))), t)

\* Variant of get_date_range: the relative range is always 30 days.
get_date_range_DefaultDays(d, t) ==
  LET absolute_start == absolute_date(d, "absolute_start_date")
      absolute_end == absolute_date(d, "absolute_end_date")
  IN  IF TruthyText(absolute_start) /\ TruthyText(absolute_end)
        THEN IF fromisoformat(absolute_start) # "ok"
               THEN Raised(fromisoformat(absolute_start))
             ELSE IF fromisoformat(absolute_end) # "ok"
               THEN Raised(fromisoformat(absolute_end))
             ELSE DateRange("ok", iso_timestamp_ms(absolute_start),
                            iso_timestamp_ms(absolute_end))
        ELSE IF days_back(d) = None THEN Raised("TypeError")
        ELSE DateRange("ok", MsSub(t, DaysMs(DefaultDaysBack)), t)

\* get_date_range (config.py 219-248) at the clock reading t, in
\* milliseconds: the absolute dates when both are truthy, else the
\* days_back days that end now.
get_date_range(d, t) ==
  LET absolute_start == absolute_date(d, "absolute_start_date")
      absolute_end == absolute_date(d, "absolute_end_date")
  IN  IF TruthyText(absolute_start) /\ TruthyText(absolute_end)
        THEN IF fromisoformat(absolute_start) # "ok"
               THEN Raised(fromisoformat(absolute_start))
             ELSE IF fromisoformat(absolute_end) # "ok"
               THEN Raised(fromisoformat(absolute_end))
             ELSE DateRange("ok", iso_timestamp_ms(absolute_start),
                            iso_timestamp_ms(absolute_end))
        ELSE IF days_back(d) = None THEN Raised("TypeError")
        ELSE DateRange("ok", MsSub(t, DaysMs(days_back(d))), t)

\* The documents followed for the date range: the valid one with any keys
\* and values in export.date_range.
DaysBackValues == { None, 0, 1, 7 }
DateDocs ==
  { [ ValidDoc EXCEPT !.date_keys = k, !.absolute_start_date = a,
                      !.absolute_end_date = b, !.default_days_back = n ] :
      k \in { DateKeys, DateKeys \ { "default_days_back" },
              DateKeys \ { "absolute_end_date" } },
      a \in { "None", "", "2024-01-01", "soon" },
      b \in { "None", "", "2024-01-31", "date" },
      n \in DaysBackValues }

\* The readings of datetime.now() followed, in milliseconds.
NowReadings == { Ms(19800, 0), Ms(19800, 1), Ms(19801, MS_PER_DAY - 1) }

\* ----------------------------------------------------- the client at rest
\* No token, and get_valid_token not called yet.
NoToken == [ issued_at |-> None, expires_in |-> None ]
NoTokenCall ==
  [ outcome |-> "none", token |-> NoToken, at |-> 0, requested |-> FALSE,
    cached |-> NoToken ]

\* The client's side during run_export: the configuration is loaded, the
\* client constructed for the default environment, nothing requested yet.
ClientAtRest ==
  /\ doc = ValidDoc
  /\ network = {}
  /\ date_range = NoRange
  /\ access_token = NoToken
  /\ token_expires_at = None
  /\ token_call = NoTokenCall
  /\ environment = STAGING

\* ---------------------------------------------------------------- helpers
\* should_include_survey has not been called yet.
NoCall == [ id |-> 0, result |-> FALSE ]

Range(s) == { s[i] : i \in 1..Len(s) }

\* Python truthiness of an optional number: None and 0 are falsy.
Truthy(x) == x # None /\ x # 0

\* Keys and values of the export mapping (a sequence of [sid, eid] pairs
\* with distinct sid, in dict insertion order).
MappingKeys(m) == { m[i].sid : i \in 1..Len(m) }
MappingValues(m) == { m[i].eid : i \in 1..Len(m) }

\* export_mapping[sid] = eid: an existing key keeps its position and gets
\* the new value, a new key is appended.
MappingSet(m, sid, eid) ==
  IF sid \in MappingKeys(m)
    THEN [ i \in 1..Len(m) |->
             IF m[i].sid = sid THEN [sid |-> sid, eid |-> eid] ELSE m[i] ]
    ELSE Append(m, [sid |-> sid, eid |-> eid])

NoReport == [ written |-> FALSE ]

SeqsUpTo(S, n) == UNION { [1..k -> S] : k \in 0..n }

\* The survey lists the remote service can return, up to a renaming of the
\* platformFormIds: each survey repeats an id seen earlier in the list or
\* carries the next unused one.
SurveyLists ==
  { s \in SeqsUpTo(SurveyIds, MaxSurveys) :
      \A i \in 1..Len(s) :
        s[i] <= Cardinality({ s[j] : j \in 1..(i - 1) }) + 1 }

\* ------------------------------------------------- output directory, paths
\* datetime.now().strftime("%d_%m_%Y_%H%M%S"): the timestamp in the name of
\* the output directory has a resolution of one second.
Timestamp(t) == t \div TicksPerSecond

\* The record of an output directory made at clock reading t.
Made(t) == [ at |-> t, ts |-> Timestamp(t) ]

\* A path is the sequence of its components from the root.  A component is
\* a name, with in pre the number built into it ("<export id>_<name>",
\* "survey_data_<timestamp>"; 0 for a name that is used as it is):
\* "<id>_.." is an ordinary name, ".." alone is not.
Comp(pre, name) == [ pre |-> pre, name |-> name ]
Plain(name) == Comp(0, name)
IsParentRef(c) == c = Plain("..")

\* A name handed over by the remote side: an archive member's filename or
\* the filename of a Content-Disposition header, absolute or relative.
Name(abs, parts) == [ abs |-> abs, parts |-> parts ]

\* The directory the process runs in, get_survey_output_directory()
\* ("output/survey_exports", relative to it) and the output directory of
\* the run below that.
WorkDir == << Plain("work") >>
SurveyOutputDir == WorkDir \o << Plain("output"), Plain("survey_exports") >>
OutputDirAt(ts) == SurveyOutputDir \o << Comp(ts, "survey_data") >>
OutputDir == OutputDirAt(Timestamp(0))

Ancestors(p) == { SubSeq(p, 1, k) : k \in 0..Len(p) }
Parent(p) == SubSeq(p, 1, Len(p) - 1)

\* pathlib's dir / name: an absolute right-hand side replaces the left.
Join(dir, name) == IF name.abs THEN name.parts ELSE dir \o name.parts

\* Where the operating system ends up when it walks the components of p
\* from the root, ".." going one level up (and staying at the root).
RECURSIVE ResolveFrom(_, _, _)
ResolveFrom(p, i, acc) ==
  IF i > Len(p) THEN acc
  ELSE IF IsParentRef(p[i])
    THEN ResolveFrom(p, i + 1, IF acc = << >> THEN acc ELSE Parent(acc))
    ELSE ResolveFrom(p, i + 1, Append(acc, p[i]))

Resolve(p) == ResolveFrom(p, 1, << >>)

\* p lies below dir.
Under(p, dir) == Len(p) > Len(dir) /\ SubSeq(p, 1, Len(dir)) = dir

\* ---------------------------------------------------------- configuration
\* An optional list setting that is absent (None in the loaded document).
NoList == { None }

\* Variant of should_include_survey: the exclusion list is looked at first.
should_include_survey_ExclusionFirst(survey_id) ==
  IF cfg.exclude_survey_ids # NoList /\ survey_id \in cfg.exclude_survey_ids
    THEN FALSE
    ELSE IF cfg.survey_ids # NoList
           THEN survey_id \in cfg.survey_ids
           ELSE TRUE

\* Variant of should_include_survey: the exclusion list is not looked at.
should_include_survey_NoExclusion(survey_id) ==
  IF cfg.survey_ids # NoList
    THEN survey_id \in cfg.survey_ids
    ELSE TRUE

\* ConfigManager.should_include_survey: the inclusion list, when it is not
\* None, decides alone; otherwise a member of the exclusion list is dropped.
should_include_survey(survey_id) ==
  IF cfg.survey_ids # NoList
    THEN survey_id \in cfg.survey_ids
    ELSE IF cfg.exclude_survey_ids # NoList
              /\ survey_id \in cfg.exclude_survey_ids
           THEN FALSE
           ELSE TRUE

\* Variant of FilterFrom: the cap counts every survey looked at, kept or
\* not.
RECURSIVE FilterFrom_CapCountsAll(_, _, _)
FilterFrom_CapCountsAll(s, i, acc) ==
  IF i > Len(s) \/ ( Truthy(cfg.max_surveys) /\ i > cfg.max_surveys ) THEN acc
  ELSE IF should_include_survey(s[i])
    THEN FilterFrom_CapCountsAll(s, i + 1, Append(acc, s[i]))
    ELSE FilterFrom_CapCountsAll(s, i + 1, acc)

\* The loop of filter_surveys from position i on, acc being the surveys
\* kept so far: a kept survey is appended and the loop breaks as soon as a
\* truthy max_surveys is reached.
RECURSIVE FilterFrom(_, _, _)
FilterFrom(s, i, acc) ==
  IF i > Len(s) THEN acc
  ELSE IF should_include_survey(s[i])
    THEN LET kept == Append(acc, s[i])
         IN  IF Truthy(cfg.max_surveys) /\ Len(kept) >= cfg.max_surveys
               THEN kept
               ELSE FilterFrom(s, i + 1, kept)
    ELSE FilterFrom(s, i + 1, acc)

filter_surveys(s) == FilterFrom(s, 1, << >>)

\* The settings of the default configuration file.
DefaultConfig ==
  [ continue_on_failure |-> TRUE,
    max_wait_time |-> None,
    save_metadata |-> TRUE,
    survey_ids |-> NoList,
    exclude_survey_ids |-> NoList,
    max_surveys |-> None,
    extract_json |-> TRUE,
    remove_zip_after_extract |-> TRUE,
    include_survey_details |-> TRUE,
    include_export_status |-> TRUE ]

\* The monitoring settings, which decide how polling goes.
MonitoringConfigs ==
  { [ DefaultConfig EXCEPT !.continue_on_failure = c, !.max_wait_time = w ] :
      c \in BOOLEAN, w \in { None } \cup (0..MaxWait) }

\* The survey filter settings, which decide what is requested.
FilterConfigs ==
  { [ DefaultConfig EXCEPT !.exclude_survey_ids = x, !.max_surveys = n ] :
      x \in { NoList, { 1 } }, n \in { None, 1 } }

\* The metadata settings, which decide what is written at the end.
MetadataConfigs ==
  { [ DefaultConfig EXCEPT !.save_metadata = b ] : b \in BOOLEAN }

\* The configurations a run is checked under.
Configs == MonitoringConfigs \cup FilterConfigs \cup MetadataConfigs

\* ------------------------------------------------------------------- Init
\* SurveyDataExporter.__init__: an empty report, nothing requested yet.
ExportMetadata0 ==
  [ total_surveys |-> 0,
    successful_exports |-> 0,
    failed_exports |-> 0,
    surveys |-> << >>,
    failures |-> << >>,
    ended |-> FALSE ]

\* The poller's counters before wait_for_exports_completion sets them.
NoCounts == [ COMPLETED |-> 0, FAILED |-> 0, IN_PROGRESS |-> 0 ]

\* The working state of a run before its first stage.
Fresh ==
  /\ filtered_surveys = << >>
  /\ req_index = 1
  /\ export_mapping = << >>
  /\ pending_exports = {}
  /\ todo = {}
  /\ completed_exports = << >>
  /\ failed_exports = << >>
  /\ clock = 0
  /\ start_wait_time = 0
  /\ poll_exit = "none"
  /\ dl_index = 1
  /\ downloaded_files = << >>
  /\ export_details_by_survey = [ s \in SurveyIds |-> 0 ]
  /\ zips_on_disk = {}
  /\ report = NoReport
  /\ logged = {}
  /\ last_query = [ id |-> 0, result |-> "none" ]
  /\ waited = {}
  /\ obs_log = << >>
  /\ submit_log = << >>
  /\ download_log = << >>
  /\ current_status_counts = NoCounts
  /\ cumulative_status_counts = NoCounts

Init ==
  /\ pc = "get_surveys"
  /\ cfg \in Configs
  /\ surveys = << >>
  /\ export_metadata = ExportMetadata0
  /\ Fresh
  /\ include_call = NoCall
  /\ now = 0
  /\ output_dirs = << Made(0) >>
  /\ fs_dirs = { OutputDir }
  /\ fs_files = {}
  /\ extract_log = << >>
  /\ ClientAtRest

\* Variant of Raise: the except clause swallows the exception.
Raise_Swallowed ==
  /\ pc' = "returned"
  /\ logged' = logged

\* What run_export's except clause does with an exception that reaches it:
\* it logs and re-raises, so the run is over.
Raise ==
  /\ pc' = "raised"
  /\ logged' = logged \cup { "Export process failed" }

\* ----------------------------------------------------- fetch and filter
\* get_surveys: the fetch returns a list or raises; an empty list ends the
\* run (run_export returns before anything else happens).
GetSurveys ==
  /\ pc = "get_surveys"
  /\ \/ \E s \in SurveyLists :
          /\ surveys' = s
          /\ export_metadata' =
               [ export_metadata EXCEPT !.total_surveys = Len(s) ]
          /\ IF s = << >>
               THEN /\ pc' = "returned"
                    /\ logged' = logged \cup { "No surveys found" }
               ELSE /\ pc' = "filter_surveys"
                    /\ UNCHANGED logged
     \/ /\ Raise
        /\ UNCHANGED << surveys, export_metadata >>
  /\ UNCHANGED << cfg, outside, polling_counts, filtered_surveys, req_index, export_mapping,
                  pending_exports, todo, completed_exports, failed_exports,
                  clock, start_wait_time, poll_exit, dl_index,
                  downloaded_files, export_details_by_survey, zips_on_disk,
                  report, last_query, waited, obs_log, submit_log,
                  download_log >>

\* Variant of AfterFilter: run_export goes on with an empty filtered list.
AfterFilter_NoReturn(f) == "request_exports"

\* "if not filtered_surveys: return" in run_export.
AfterFilter(f) == IF f = << >> THEN "returned" ELSE "request_exports"

\* filter_surveys, and run_export's early return on an empty result.
FilterSurveys ==
  /\ pc = "filter_surveys"
  /\ filtered_surveys' = filter_surveys(surveys)
  /\ pc' = AfterFilter(filtered_surveys')
  /\ logged' = IF filtered_surveys' = << >>
                 THEN logged \cup { "No surveys match the filter criteria" }
                 ELSE logged
  /\ req_index' = 1
  /\ UNCHANGED << cfg, outside, polling_counts, surveys, export_mapping, pending_exports, todo,
                  completed_exports, failed_exports, clock, start_wait_time,
                  poll_exit, dl_index, downloaded_files,
                  export_details_by_survey, zips_on_disk, export_metadata,
                  report, last_query, waited, obs_log, submit_log,
                  download_log >>

\* ------------------------------------------------------- request_exports
\* A failure entry of the run report.  Entries of the poller carry
\* {exportId, failureReason, status} and no stage: stage is "none" there.
FailureEntry(key, id, stage) == [ key |-> key, id |-> id, stage |-> stage ]

\* The export ids a request can return.  The ids are opaque, so up to
\* renaming an answer is an id handed out before (the service repeating
\* itself) or the next unused one.
UsedExportIds == { submit_log[i].eid : i \in { j \in 1..Len(submit_log) : submit_log[j].ok } }
FreshOrUsed == { e \in ExportIds : e <= Cardinality(UsedExportIds) + 1 }

\* Variant of OnRequestError: the except clause only logs.
OnRequestError_NoEntry(sid) == << export_mapping, export_metadata.failures >>

\* << export_mapping, failures >> after a request for sid that raised: the
\* except clause appends one entry and leaves the mapping alone.
OnRequestError(sid) ==
  << export_mapping,
     Append(export_metadata.failures,
            FailureEntry("surveyId", sid, "export_request")) >>

\* One iteration of the loop of request_exports, for the survey at
\* req_index: the request returns an export id, which is stored under the
\* survey's platformFormId and followed by the fixed sleep, or it raises,
\* which is caught and recorded as an export_request failure.
RequestExport ==
  /\ pc = "request_exports"
  /\ req_index <= Len(filtered_surveys)
  /\ LET sid == filtered_surveys[req_index]
     IN  \/ \E eid \in FreshOrUsed :
               /\ export_mapping' = MappingSet(export_mapping, sid, eid)
               /\ submit_log' = Append(submit_log,
                    [ idx |-> req_index, sid |-> sid, ok |-> TRUE,
                      eid |-> eid, slept |-> TRUE ])
               /\ UNCHANGED << export_metadata, logged >>
         \/ /\ export_metadata' =
                 [ export_metadata EXCEPT !.failures = OnRequestError(sid)[2] ]
            /\ submit_log' = Append(submit_log,
                 [ idx |-> req_index, sid |-> sid, ok |-> FALSE,
                   eid |-> 0, slept |-> FALSE ])
            /\ logged' = logged \cup { "Failed to request export" }
            /\ export_mapping' = OnRequestError(sid)[1]
  /\ req_index' = req_index + 1
  /\ UNCHANGED << pc, cfg, outside, polling_counts, surveys, filtered_surveys, pending_exports, todo,
                  completed_exports, failed_exports, clock, start_wait_time,
                  poll_exit, dl_index, downloaded_files,
                  export_details_by_survey, zips_on_disk, report, last_query, waited,
                  obs_log, download_log >>

\* The end of request_exports and run_export's early return: with an empty
\* mapping an error is logged and run_export returns; otherwise
\* wait_for_exports_completion starts with the set of the mapping's values,
\* all of them counted as in progress.
RequestExportsDone ==
  /\ pc = "request_exports"
  /\ req_index > Len(filtered_surveys)
  /\ IF export_mapping = << >>
       THEN /\ pc' = "returned"
            /\ logged' = logged \cup { "No exports were successfully requested" }
            /\ UNCHANGED << pending_exports, start_wait_time,
                            cumulative_status_counts >>
       ELSE /\ pc' = "poll_top"
            /\ pending_exports' = MappingValues(export_mapping)
            /\ start_wait_time' = clock
            /\ cumulative_status_counts' =
                 [ NoCounts EXCEPT !.IN_PROGRESS = Cardinality(pending_exports') ]
            /\ UNCHANGED logged
  /\ UNCHANGED << cfg, outside, current_status_counts, surveys, filtered_surveys, req_index, export_mapping,
                  todo, completed_exports, failed_exports, clock, poll_exit,
                  dl_index, downloaded_files, export_details_by_survey,
                  zips_on_disk, export_metadata, report, last_query, waited, obs_log,
                  submit_log, download_log >>

\* ------------------------------------------- wait_for_exports_completion
Tick(t, d) == IF t + d > MaxClock THEN MaxClock ELSE t + d

\* Variant of WaitExceeded: the comparison the wrong way round.
WaitExceeded_Reversed ==
  Truthy(cfg.max_wait_time) /\ (clock - start_wait_time) < cfg.max_wait_time

\* The budget test at the top of an iteration.
WaitExceeded ==
  Truthy(cfg.max_wait_time) /\ (clock - start_wait_time) > cfg.max_wait_time

\* Variant of TimeoutFailed: the break counts a leftover id as failed.
TimeoutFailed_MarkPending ==
  Append(failed_exports, CHOOSE e \in pending_exports : TRUE)

\* failed_exports after the break on an exceeded budget: the break only
\* logs a warning, the ids still pending are put nowhere.
TimeoutFailed == failed_exports

\* The two counters are locals of wait_for_exports_completion: they are
\* gone once it returns or raises.
CountsGone ==
  /\ current_status_counts' = NoCounts
  /\ cumulative_status_counts' = NoCounts

\* The top of the while loop: the loop ends when nothing is pending, breaks
\* when the budget is exceeded, and otherwise sleeps one polling interval,
\* resets the counts of the iteration and takes the snapshot
\* list(pending_exports) it is going to query.
PollTop ==
  /\ pc = "poll_top"
  /\ \/ /\ pending_exports = {}
        /\ poll_exit' = "resolved"
        /\ pc' = "download_exports"
        /\ CountsGone
        /\ UNCHANGED << clock, todo, logged, failed_exports >>
     \/ /\ pending_exports # {}
        /\ WaitExceeded
        /\ poll_exit' = "timeout"
        /\ pc' = "download_exports"
        /\ logged' = logged \cup { "Maximum wait time exceeded" }
        /\ failed_exports' = TimeoutFailed
        /\ CountsGone
        /\ UNCHANGED << clock, todo >>
     \/ /\ pending_exports # {}
        /\ ~ WaitExceeded
        /\ clock' = Tick(clock, PollingInterval)
        /\ current_status_counts' = NoCounts
        /\ todo' = pending_exports
        /\ pc' = "poll_iter"
        /\ UNCHANGED << poll_exit, logged, failed_exports,
                        cumulative_status_counts >>
  /\ UNCHANGED << cfg, outside, surveys, filtered_surveys, req_index, export_mapping,
                  pending_exports, completed_exports, start_wait_time, dl_index, downloaded_files,
                  export_details_by_survey, zips_on_disk, export_metadata,
                  report, last_query, waited, obs_log, submit_log,
                  download_log >>

\* completed_exports[export_id] = status: a new key goes last.
DictAdd(keys, k) == IF k \in Range(keys) THEN keys ELSE Append(keys, k)

\* Variant of OnCompleted: the id is not removed from pending_exports.
OnCompleted_KeepPending(e) ==
  << DictAdd(completed_exports, e), failed_exports,
     pending_exports, export_metadata.failures >>

\* Variant of OnCompleted: the status is not stored in completed_exports.
OnCompleted_NoRecord(e) ==
  << completed_exports, failed_exports, pending_exports \ { e },
     export_metadata.failures >>

\* What the handling of a COMPLETED status does to
\* << completed_exports, failed_exports, pending_exports, failures >>.
OnCompleted(e) ==
  << DictAdd(completed_exports, e), failed_exports,
     pending_exports \ { e }, export_metadata.failures >>

\* Variant of OnFailed: the failed export is also kept among the completed.
OnFailed_AlsoCompleted(e) ==
  << DictAdd(completed_exports, e), Append(failed_exports, e),
     pending_exports \ { e },
     Append(export_metadata.failures, FailureEntry("exportId", e, "none")) >>

\* Variant of OnFailed: no entry is appended to the report's failures.
OnFailed_NoEntry(e) ==
  << completed_exports, Append(failed_exports, e),
     pending_exports \ { e }, export_metadata.failures >>

\* The handling of a FAILED status.
OnFailed(e) ==
  << completed_exports, Append(failed_exports, e),
     pending_exports \ { e },
     Append(export_metadata.failures, FailureEntry("exportId", e, "none")) >>

\* Variant of OnPending: an id that is not terminal is dropped from
\* pending_exports.
OnPending_Drops(e) ==
  << completed_exports, failed_exports, pending_exports \ { e },
     export_metadata.failures >>

\* The handling of SUBMITTED / IN_PROGRESS, and of any other status.
OnPending(e) ==
  << completed_exports, failed_exports, pending_exports,
     export_metadata.failures >>

\* Variant of OnQueryError: the id is not removed from pending_exports.
OnQueryError_KeepPending(e) ==
  << completed_exports, Append(failed_exports, e),
     pending_exports, export_metadata.failures >>

\* The except clause with continue_on_failure enabled.
OnQueryError(e) ==
  << completed_exports, Append(failed_exports, e),
     pending_exports \ { e }, export_metadata.failures >>

\* Variant of QueryErrorRaises: the except clause never re-raises.
QueryErrorRaises_Never == FALSE

\* "if not self.continue_on_failure: raise" in the except clause.
QueryErrorRaises == ~ cfg.continue_on_failure

\* The history of terminal results, for the properties.
Observe(e, result) == Append(obs_log, [ id |-> e, result |-> result ])

\* Variant of NextInIteration: the budget is looked at after every query,
\* and the rest of the snapshot is dropped once it is exceeded.
NextInIteration_ChecksBudget(e) ==
  /\ todo' = IF WaitExceeded THEN {} ELSE todo \ { e }
  /\ pc' = IF todo' = {} THEN "poll_top" ELSE "poll_iter"

\* After the query of e: the iteration goes on with the rest of the
\* snapshot, and goes back to the top of the loop after its last id.
NextInIteration(e) ==
  /\ todo' = todo \ { e }
  /\ pc' = IF todo \ { e } = {} THEN "poll_top" ELSE "poll_iter"

\* Variant of Accumulate: IN_PROGRESS is added up like the other two.
Accumulate_AddsInProgress(cur) ==
  [ COMPLETED |-> cumulative_status_counts.COMPLETED + cur.COMPLETED,
    FAILED |-> cumulative_status_counts.FAILED + cur.FAILED,
    IN_PROGRESS |-> cumulative_status_counts.IN_PROGRESS + cur.IN_PROGRESS ]

\* The cumulative counts after an iteration whose own counts are cur:
\* COMPLETED and FAILED are added up, IN_PROGRESS is what is left pending.
Accumulate(cur) ==
  [ COMPLETED |-> cumulative_status_counts.COMPLETED + cur.COMPLETED,
    FAILED |-> cumulative_status_counts.FAILED + cur.FAILED,
    IN_PROGRESS |-> Cardinality(pending_exports') ]

\* The counting done for the query of e: the branch taken adds one to its
\* count of the iteration (kind "none": the status is none of those
\* tested, nothing is counted), and after the last id of the snapshot the
\* cumulative counts are brought up to date for the progress message.
CountQuery(e, kind) ==
  /\ current_status_counts' =
       IF kind = "none" THEN current_status_counts
       ELSE [ current_status_counts EXCEPT ![kind] = @ + 1 ]
  /\ cumulative_status_counts' =
       IF todo \ { e } = {} THEN Accumulate(current_status_counts')
       ELSE cumulative_status_counts

ApplyPoll(r) ==
  /\ completed_exports' = r[1]
  /\ failed_exports' = r[2]
  /\ pending_exports' = r[3]
  /\ export_metadata' = [ export_metadata EXCEPT !.failures = r[4] ]

\* One pass through the body of the for loop: the status query of one id of
\* the snapshot, which takes d ticks and returns a status or raises.
PollQuery ==
  /\ pc = "poll_iter"
  /\ \E e \in todo, d \in 0..1 :
       /\ clock' = Tick(clock, d)
       /\ \/ /\ ApplyPoll(OnCompleted(e))
             /\ CountQuery(e, COMPLETED)
             /\ last_query' = [ id |-> e, result |-> COMPLETED ]
             /\ obs_log' = Observe(e, COMPLETED)
             /\ NextInIteration(e)
             /\ UNCHANGED << logged, waited >>
          \/ /\ ApplyPoll(OnFailed(e))
             /\ CountQuery(e, FAILED)
             /\ last_query' = [ id |-> e, result |-> FAILED ]
             /\ obs_log' = Observe(e, FAILED)
             /\ NextInIteration(e)
             /\ UNCHANGED << logged, waited >>
          \/ \E st \in { SUBMITTED, IN_PROGRESS, UNKNOWN } :
               /\ ApplyPoll(OnPending(e))
               /\ CountQuery(e, IF st = UNKNOWN THEN "none" ELSE IN_PROGRESS)
               /\ last_query' = [ id |-> e, result |-> st ]
               /\ waited' = IF st = UNKNOWN THEN waited ELSE waited \cup { e }
               /\ NextInIteration(e)
               /\ UNCHANGED << obs_log, logged >>
          \/ /\ ~ QueryErrorRaises
             /\ UNCHANGED waited
             /\ ApplyPoll(OnQueryError(e))
             /\ CountQuery(e, FAILED)
             /\ last_query' = [ id |-> e, result |-> "error" ]
             /\ obs_log' = Observe(e, "error")
             /\ NextInIteration(e)
             /\ logged' = logged \cup { "Error checking status" }
          \/ /\ QueryErrorRaises
             /\ UNCHANGED waited
             /\ last_query' = [ id |-> e, result |-> "error" ]
             /\ obs_log' = Observe(e, "error")
             /\ pc' = "raised"
             /\ logged' = logged \cup { "Error checking status",
                                         "Export process failed" }
             /\ CountsGone
             /\ UNCHANGED << todo, completed_exports, failed_exports,
                             pending_exports, export_metadata >>
  /\ UNCHANGED << cfg, outside, surveys, filtered_surveys, req_index, export_mapping,
                  start_wait_time, poll_exit, dl_index, downloaded_files,
                  export_details_by_survey, zips_on_disk, report, submit_log,
                  download_log >>

\* ------------------------------------------------------ download_exports
\* Variant of FirstSurveyOf: the loop has no break, the last match wins.
RECURSIVE FirstSurveyOf_LastMatch(_, _, _)
FirstSurveyOf_LastMatch(m, e, i) ==
  IF i > Len(m) THEN 0
  ELSE LET later == FirstSurveyOf_LastMatch(m, e, i + 1)
       IN  IF later # 0 THEN later
           ELSE IF m[i].eid = e THEN m[i].sid ELSE 0

\* The first survey id, in the mapping's insertion order, whose export id is
\* e (0 when there is none): the target of the "first match" loop.
RECURSIVE FirstSurveyOf(_, _, _)
FirstSurveyOf(m, e, i) ==
  IF i > Len(m) THEN 0
  ELSE IF m[i].eid = e THEN m[i].sid
  ELSE FirstSurveyOf(m, e, i + 1)

\* export_details_by_survey after the successful download of e.
DetailsAfter(e) ==
  LET sid == FirstSurveyOf(export_mapping, e, 1)
  IN  IF sid = 0 THEN export_details_by_survey
      ELSE [ export_details_by_survey EXCEPT ![sid] = e ]

\* Variant of OnDownloadError: the path is appended before the failure.
OnDownloadError_KeepFile(e) ==
  << Append(downloaded_files, e),
     Append(export_metadata.failures, FailureEntry("exportId", e, "download")) >>

\* << downloaded_files, failures >> after a download of e that raised.
OnDownloadError(e) ==
  << downloaded_files,
     Append(export_metadata.failures, FailureEntry("exportId", e, "download")) >>

\* One iteration of the loop of download_exports, for the completed export
\* at dl_index: the archive is fetched and written, or the request raises
\* (nothing is written), or the write raises (a partial file is left).  An
\* exception is caught and recorded as a download failure.
DownloadExport ==
  /\ pc = "download_exports"
  /\ dl_index <= Len(completed_exports)
  /\ LET e == completed_exports[dl_index]
     IN  \/ /\ downloaded_files' = Append(downloaded_files, e)
            /\ zips_on_disk' = zips_on_disk \cup { e }
            /\ export_details_by_survey' = DetailsAfter(e)
            /\ download_log' = Append(download_log, [ id |-> e, ok |-> TRUE ])
            /\ UNCHANGED << export_metadata, logged >>
         \/ \E partial \in BOOLEAN :
              /\ downloaded_files' = OnDownloadError(e)[1]
              /\ export_metadata' =
                   [ export_metadata EXCEPT !.failures = OnDownloadError(e)[2] ]
              /\ zips_on_disk' =
                   IF partial THEN zips_on_disk \cup { e } ELSE zips_on_disk
              /\ download_log' = Append(download_log, [ id |-> e, ok |-> FALSE ])
              /\ logged' = logged \cup { "Failed to download export" }
              /\ UNCHANGED export_details_by_survey
  /\ dl_index' = dl_index + 1
  /\ UNCHANGED << pc, cfg, outside, polling_counts, surveys, filtered_surveys, req_index,
                  export_mapping, pending_exports, todo, completed_exports,
                  failed_exports, clock, start_wait_time, poll_exit, report,
                  last_query, waited, obs_log, submit_log >>

\* The end of download_exports: run_export extracts only when something
\* was downloaded.
DownloadExportsDone ==
  /\ pc = "download_exports"
  /\ dl_index > Len(completed_exports)
  /\ pc' = IF downloaded_files # << >> THEN "extract_json_files"
           ELSE "update_metadata"
  /\ UNCHANGED << cfg, outside, polling_counts, surveys, filtered_surveys, req_index, export_mapping,
                  pending_exports, todo, completed_exports, failed_exports,
                  clock, start_wait_time, poll_exit, dl_index,
                  downloaded_files, export_details_by_survey, zips_on_disk,
                  export_metadata, report, logged, last_query, waited, obs_log,
                  submit_log, download_log >>

\* ---------------------------------------------------- extract_json_files
\* Variant of Processed: the loop ends with the first archive that fails to
\* extract.
Processed_StopsAtFailure(bad, stuck) ==
  LET n == IF \E i \in 1..Len(downloaded_files) : downloaded_files[i] \in bad
             THEN CHOOSE i \in 1..Len(downloaded_files) :
                    /\ downloaded_files[i] \in bad
                    /\ \A j \in 1..(i - 1) : downloaded_files[j] \notin bad
             ELSE Len(downloaded_files)
  IN  [ i \in 1..n |->
          [ zip |-> downloaded_files[i],
            ok |-> downloaded_files[i] \notin bad,
            removed |-> /\ downloaded_files[i] \notin bad
                        /\ cfg.remove_zip_after_extract
                        /\ downloaded_files[i] \notin stuck ] ]

\* What the loop over zip_files does with each archive, in order, when the
\* archives in bad fail to extract and those in stuck fail to be deleted:
\* an archive is deleted when its extraction succeeded,
\* remove_zip_after_extract is set and unlink does not fail.
Processed(bad, stuck) ==
  [ i \in 1..Len(downloaded_files) |->
      [ zip |-> downloaded_files[i],
        ok |-> downloaded_files[i] \notin bad,
        removed |-> /\ downloaded_files[i] \notin bad
                    /\ cfg.remove_zip_after_extract
                    /\ downloaded_files[i] \notin stuck ] ]

\* extract_json_files over all downloaded archives; both kinds of error are
\* logged and swallowed.
ExtractJsonFiles ==
  /\ pc = "extract_json_files"
  /\ IF cfg.extract_json
       THEN \E bad \in SUBSET Range(downloaded_files) :
            \E stuck \in SUBSET (Range(downloaded_files) \ bad) :
              /\ extract_log' = Processed(bad, stuck)
              /\ zips_on_disk' =
                   zips_on_disk \ { e.zip : e \in { x \in Range(extract_log') : x.removed } }
              /\ logged' = logged
                   \cup (IF \E e \in Range(extract_log') : ~ e.ok
                           THEN { "Error extracting" } ELSE {})
                   \cup (IF \E e \in Range(extract_log') :
                              e.ok /\ ~ e.removed /\ cfg.remove_zip_after_extract
                           THEN { "Error deleting zip file" } ELSE {})
       ELSE UNCHANGED << zips_on_disk, logged, extract_log >>
  /\ pc' = "update_metadata"
  /\ UNCHANGED << cfg, include_call, placement, client_side, polling_counts, surveys,
                  filtered_surveys, req_index, export_mapping,
                  pending_exports, todo, completed_exports, failed_exports,
                  clock, start_wait_time, poll_exit, dl_index,
                  downloaded_files, export_details_by_survey, export_metadata,
                  report, last_query, waited, obs_log, submit_log, download_log >>

\* -------------------------------------------------------- update_metadata
\* The counts update_metadata stores in the report.
SuccessfulCount == Len(completed_exports)

\* Variant of FailedCount: only the ids of the poller's failed result count.
FailedCount_IdsOnly == Len(failed_exports)

FailedCount == Len(failed_exports) + Len(export_metadata.failures)

\* The surveys[] entries: one per filtered survey, with its export details
\* when there are some and they are to be included.
SurveyDicts ==
  [ i \in 1..Len(filtered_surveys) |->
      [ sid |-> filtered_surveys[i],
        export_details |->
          IF cfg.include_export_status
            THEN export_details_by_survey[filtered_surveys[i]]
            ELSE 0 ] ]

UpdateMetadata ==
  /\ pc = "update_metadata"
  /\ export_metadata' =
       [ export_metadata EXCEPT
           !.successful_exports = SuccessfulCount,
           !.failed_exports = FailedCount,
           !.surveys = IF cfg.include_survey_details THEN SurveyDicts ELSE @,
           !.ended = TRUE ]
  /\ pc' = "save_export_metadata"
  /\ UNCHANGED << cfg, outside, polling_counts, surveys, filtered_surveys, req_index, export_mapping,
                  pending_exports, todo, completed_exports, failed_exports,
                  clock, start_wait_time, poll_exit, dl_index,
                  downloaded_files, export_details_by_survey, zips_on_disk,
                  report, logged, last_query, waited, obs_log, submit_log,
                  download_log >>

\* --------------------------------------------------- save_export_metadata
\* save_export_metadata: nothing when saving is disabled; otherwise the
\* report is dumped to the metadata file, and an error while doing so is
\* logged inside the method.
\* Variant of SaveEnabled: the save_metadata setting is not consulted.
SaveEnabled_Always == TRUE

\* metadata_config.get("save_metadata", True)
SaveEnabled == cfg.save_metadata

SaveExportMetadata ==
  /\ pc = "save_export_metadata"
  /\ \/ /\ ~ SaveEnabled
        /\ UNCHANGED << report, logged >>
     \/ /\ SaveEnabled
        /\ report' = [ written |-> TRUE, content |-> export_metadata ]
        /\ UNCHANGED logged
     \/ /\ SaveEnabled
        /\ logged' = logged \cup { "Failed to save metadata" }
        /\ UNCHANGED report
  /\ pc' = "log_export_summary"
  /\ UNCHANGED << cfg, outside, polling_counts, surveys, filtered_surveys, req_index, export_mapping,
                  pending_exports, todo, completed_exports, failed_exports,
                  clock, start_wait_time, poll_exit, dl_index,
                  downloaded_files, export_details_by_survey, zips_on_disk,
                  export_metadata, last_query, waited, obs_log, submit_log,
                  download_log >>

\* log_export_summary, after which run_export returns.
LogExportSummary ==
  /\ pc = "log_export_summary"
  /\ pc' = "done"
  /\ logged' = logged \cup { "Export completed successfully!" }
  /\ UNCHANGED << cfg, outside, polling_counts, surveys, filtered_surveys, req_index, export_mapping,
                  pending_exports, todo, completed_exports, failed_exports,
                  clock, start_wait_time, poll_exit, dl_index,
                  downloaded_files, export_details_by_survey, zips_on_disk,
                  export_metadata, report, last_query, waited, obs_log, submit_log,
                  download_log >>

\* ------------------------------------------------------------------ Next
Next ==
  \/ GetSurveys
  \/ FilterSurveys
  \/ RequestExport
  \/ RequestExportsDone
  \/ PollTop
  \/ PollQuery
  \/ DownloadExport
  \/ DownloadExportsDone
  \/ ExtractJsonFiles
  \/ UpdateMetadata
  \/ SaveExportMetadata
  \/ LogExportSummary

Spec == Init /\ [][Next]_vars

\* The thread keeps running: a step that can be taken is taken.  Every
\* remote call returns or raises (the client sets a timeout on each request).
FairSpec == Spec /\ WF_vars(Next)

\* ------------------------------------------------------ the survey filter
\* An optional list of survey ids as the configuration document gives it:
\* absent, or a list (possibly empty) of ids.
IdLists == { NoList } \cup SUBSET SurveyIds

\* Every survey filter: inclusion list, exclusion list and cap.
AllFilterConfigs ==
  { [ DefaultConfig EXCEPT !.survey_ids = i, !.exclude_survey_ids = x,
                           !.max_surveys = n ] :
      i \in IdLists, x \in IdLists, n \in { None } \cup (0..MaxSurveys) }

\* run_export at the point where it has fetched a non-empty survey list
\* and is about to filter it, under any survey filter.
InitFilter ==
  /\ pc = "filter_surveys"
  /\ cfg \in AllFilterConfigs
  /\ surveys \in SeqsUpTo(SurveyIds, MaxSurveys) \ { << >> }
  /\ export_metadata = [ ExportMetadata0 EXCEPT !.total_surveys = Len(surveys) ]
  /\ Fresh
  /\ include_call = NoCall
  /\ now = 0
  /\ output_dirs = << Made(0) >>
  /\ fs_dirs = { OutputDir }
  /\ fs_files = {}
  /\ extract_log = << >>
  /\ ClientAtRest

\* A call of should_include_survey for some survey id.
ShouldIncludeSurvey ==
  /\ \E survey_id \in SurveyIds :
       include_call' = [ id |-> survey_id,
                         result |-> should_include_survey(survey_id) ]
  /\ UNCHANGED << extract_log, client_side, polling_counts, pc, cfg, surveys, filtered_surveys, req_index,
                  export_mapping, pending_exports, todo, completed_exports,
                  failed_exports, clock, start_wait_time, poll_exit, dl_index,
                  downloaded_files, export_details_by_survey, zips_on_disk,
                  export_metadata, report, logged, last_query, waited,
                  obs_log, submit_log, download_log, now, output_dirs,
                  fs_dirs, fs_files >>

NextFilter ==
  \/ ShouldIncludeSurvey
  \/ FilterSurveys

FilterSpec == InitFilter /\ [][NextFilter]_vars

\* ---------------------------------- output directories and file placement
\* The clock readings followed: MaxRuns seconds.
MaxNow == MaxRuns * TicksPerSecond

\* No Content-Disposition header, or one without "filename=".
NoHeader == Name(FALSE, << >>)

\* The filenames a Content-Disposition header can carry.
DispositionNames ==
  { NoHeader,
    Name(FALSE, << Plain("a.zip") >>),
    Name(FALSE, << Plain(".."), Plain("a.zip") >>),
    Name(TRUE, << Plain("a.zip") >>) }

\* The Content-Disposition headers a response can carry: none (or one
\* without "filename="), or `attachment; filename=<name>` with the name in
\* double quotes or not, and with another parameter after it
\* (`; size=1`) or not.
Headers ==
  { [ filename |-> NoHeader, quoted |-> FALSE, trailing |-> FALSE ] }
  \cup { [ filename |-> n, quoted |-> q, trailing |-> t ] :
           n \in DispositionNames \ { NoHeader },
           q \in BOOLEAN, t \in BOOLEAN }

\* The text after a file name when the header goes on after it: the
\* closing quote, if there is one, and the next parameter.
WithRest(name, quoted) ==
  IF quoted THEN [ name EXCEPT !.name = "a.zip\"; size=1" ]
  ELSE [ name EXCEPT !.name = "a.zip; size=1" ]

\* content_disposition.split("filename=")[1].strip('"') (client.py 99):
\* everything after "filename=", without the double quotes at its two
\* ends.  A closing quote that is followed by another parameter is not at
\* an end and stays, with the parameter.
header_filename(h) ==
  IF h.filename = NoHeader THEN NoHeader
  ELSE IF ~ h.trailing THEN h.filename
  ELSE [ h.filename EXCEPT
           !.parts = [ @ EXCEPT ![Len(@)] = WithRest(@, h.quoted) ] ]

\* The member names a downloaded archive can hold.
EntryNames ==
  { Name(FALSE, << Plain("a.json") >>),
    Name(FALSE, << Plain("d"), Plain("a.json") >>),
    Name(FALSE, << Plain(".."), Plain("a.json") >>),
    Name(TRUE, << Plain("tmp"), Plain("a.json") >>),
    Name(FALSE, << Plain("a.txt") >>) }

\* file_info.filename.endswith(".json")
EndsWithJson(name) == name.parts[Len(name.parts)].name \in { "a.json" }

\* The filename download_export builds: "export_<id>.zip" without a header
\* filename, else <id> + "_" + the header's filename, whose first component
\* so becomes an ordinary name (after "<id>_/..." for an absolute one).
download_filename(export_id, header) ==
  IF header = NoHeader THEN << Comp(export_id, "export.zip") >>
  ELSE IF header.abs THEN << Comp(export_id, "") >> \o header.parts
  ELSE << Comp(export_id, header.parts[1].name) >> \o Tail(header.parts)

\* The result of looking up a directory that does not exist.
NoEnt == << Plain("ENOENT") >>

\* The directory the operating system reaches by walking p, or NoEnt when a
\* component on the way is not an existing directory.
RECURSIVE WalkFrom(_, _, _)
WalkFrom(p, i, acc) ==
  IF acc \notin fs_dirs THEN NoEnt
  ELSE IF i > Len(p) THEN acc
  ELSE IF IsParentRef(p[i])
    THEN WalkFrom(p, i + 1, IF acc = << >> THEN acc ELSE Parent(acc))
    ELSE WalkFrom(p, i + 1, Append(acc, p[i]))

\* The directories mkdir(parents=True, exist_ok=True) leaves in place for p.
DirsMade(p) == { Resolve(SubSeq(p, 1, k)) : k \in 0..Len(p) }

\* The output directory of the exporter constructed last.
CurrentOutputDir == OutputDirAt(output_dirs[Len(output_dirs)].ts)

\* Before any exporter is constructed.
InitOutput ==
  /\ pc = "init"
  /\ cfg = DefaultConfig
  /\ surveys = << >>
  /\ export_metadata = ExportMetadata0
  /\ Fresh
  /\ include_call = NoCall
  /\ now = 0
  /\ output_dirs = << >>
  /\ fs_dirs = Ancestors(WorkDir)
  /\ fs_files = {}
  /\ extract_log = << >>
  /\ ClientAtRest

\* Time passes.
Advance ==
  /\ now < MaxNow
  /\ now' = now + 1
  /\ UNCHANGED << extract_log, client_side, polling_counts, pc, cfg, surveys, filtered_surveys, req_index,
                  export_mapping, pending_exports, todo, completed_exports,
                  failed_exports, clock, start_wait_time, poll_exit, dl_index,
                  downloaded_files, export_details_by_survey, zips_on_disk,
                  export_metadata, report, logged, last_query, waited,
                  obs_log, submit_log, download_log, include_call,
                  output_dirs, fs_dirs, fs_files >>

\* SurveyDataExporter.__init__, at a clock reading at which no exporter was
\* constructed before: the output directory is named after the current
\* timestamp and made with mkdir(parents=True, exist_ok=True), which
\* accepts a directory that is already there.
NewExporter ==
  /\ Len(output_dirs) < MaxRuns
  /\ \A i \in 1..Len(output_dirs) : output_dirs[i].at # now
  /\ output_dirs' = Append(output_dirs, Made(now))
  /\ fs_dirs' = fs_dirs \cup Ancestors(OutputDirAt(Timestamp(now)))
  /\ UNCHANGED << extract_log, client_side, polling_counts, pc, cfg, surveys, filtered_surveys, req_index,
                  export_mapping, pending_exports, todo, completed_exports,
                  failed_exports, clock, start_wait_time, poll_exit, dl_index,
                  downloaded_files, export_details_by_survey, zips_on_disk,
                  export_metadata, report, logged, last_query, waited,
                  obs_log, submit_log, download_log, include_call, now,
                  fs_files >>

\* client.download_export for the current exporter: the file is opened for
\* writing at output_path / filename, which raises when the directory it
\* would go into does not exist.
ClientDownloadExport ==
  /\ output_dirs # << >>
  /\ Cardinality(fs_files) < MaxFiles
  /\ \E export_id \in ExportIds, h \in Headers :
       LET filename == download_filename(export_id, header_filename(h))
           file_path == CurrentOutputDir \o filename
           dir == WalkFrom(Parent(file_path), 1, << >>)
       IN  /\ fs_files' =
                IF dir = NoEnt THEN fs_files
                ELSE fs_files \cup
                       { [ dir |-> CurrentOutputDir,
                           path |-> Append(dir, file_path[Len(file_path)]) ] }
           /\ download_log' =
                << [ id |-> export_id, header |-> h, filename |-> filename,
                     written |-> dir # NoEnt ] >>
  /\ UNCHANGED << extract_log, client_side, polling_counts, pc, cfg, surveys, filtered_surveys, req_index,
                  export_mapping, pending_exports, todo, completed_exports,
                  failed_exports, clock, start_wait_time, poll_exit, dl_index,
                  downloaded_files, export_details_by_survey, zips_on_disk,
                  export_metadata, report, logged, last_query, waited,
                  obs_log, submit_log, include_call, now,
                  output_dirs, fs_dirs >>

\* The body of the member loop of extract_json_files for one member of an
\* archive of the current exporter: a member whose name ends in ".json" is
\* copied to output_dir / filename, after its parent directory is made.
ExtractMember ==
  /\ output_dirs # << >>
  /\ Cardinality(fs_files) < MaxFiles
  /\ \E entry \in EntryNames :
       LET extracted_path == Join(CurrentOutputDir, entry)
       IN  IF EndsWithJson(entry)
             THEN /\ fs_dirs' = fs_dirs \cup DirsMade(Parent(extracted_path))
                  /\ fs_files' = fs_files \cup
                       { [ dir |-> CurrentOutputDir,
                           path |-> Resolve(extracted_path) ] }
             ELSE UNCHANGED << fs_dirs, fs_files >>
  /\ UNCHANGED << extract_log, client_side, polling_counts, pc, cfg, surveys, filtered_surveys, req_index,
                  export_mapping, pending_exports, todo, completed_exports,
                  failed_exports, clock, start_wait_time, poll_exit, dl_index,
                  downloaded_files, export_details_by_survey, zips_on_disk,
                  export_metadata, report, logged, last_query, waited,
                  obs_log, submit_log, download_log, include_call, now,
                  output_dirs >>

NextOutput ==
  \/ Advance
  \/ NewExporter
  \/ ClientDownloadExport
  \/ ExtractMember

OutputSpec == InitOutput /\ [][NextOutput]_vars

\* ------------------------------------------ extraction, archive by archive
\* The members of an archive, in the order of infolist(): none, one or two.
MemberLists ==
  { << >> } \cup { << a >> : a \in EntryNames }
            \cup { << a, b >> : a \in EntryNames, b \in EntryNames }

\* The lists of downloaded archives, by export id: one or two archives.
ArchiveLists ==
  { << a >> : a \in ExportIds }
    \cup { s \in ExportIds \X ExportIds : s[1] # s[2] }

\* The members among the first n whose name ends in ".json".
JsonMembers(members, n) ==
  { members[i] : i \in { j \in 1..n : EndsWithJson(members[j]) } }

\* Variant of unlinks: the archive is deleted whether or not it was
\* extracted.
unlinks_EvenIfFailed(extraction_successful) == cfg.remove_zip_after_extract

\* "if extraction_successful and self.remove_zip_after_extract" (186).
unlinks(extraction_successful) ==
  extraction_successful /\ cfg.remove_zip_after_extract

\* extract_json_files is entered with the archives of downloaded_files in
\* the output directory, under any extraction settings.
InitExtract ==
  /\ pc = "extract_json_files"
  /\ cfg \in { [ DefaultConfig EXCEPT !.extract_json = x,
                                      !.remove_zip_after_extract = r ] :
                 x \in BOOLEAN, r \in BOOLEAN }
  /\ surveys = << >>
  /\ export_metadata = ExportMetadata0
  /\ filtered_surveys = << >>
  /\ req_index = 1
  /\ export_mapping = << >>
  /\ pending_exports = {}
  /\ todo = {}
  /\ completed_exports = << >>
  /\ failed_exports = << >>
  /\ clock = 0
  /\ start_wait_time = 0
  /\ poll_exit = "none"
  /\ dl_index = 1
  /\ downloaded_files \in ArchiveLists
  /\ export_details_by_survey = [ s \in SurveyIds |-> 0 ]
  /\ zips_on_disk = Range(downloaded_files)
  /\ report = NoReport
  /\ logged = {}
  /\ last_query = [ id |-> 0, result |-> "none" ]
  /\ waited = {}
  /\ obs_log = << >>
  /\ submit_log = << >>
  /\ download_log = << >>
  /\ current_status_counts = NoCounts
  /\ cumulative_status_counts = NoCounts
  /\ include_call = NoCall
  /\ now = 0
  /\ output_dirs = << Made(0) >>
  /\ fs_dirs = Ancestors(OutputDir)
  /\ fs_files = {}
  /\ extract_log = << >>
  /\ ClientAtRest

\* One turn of the loop over zip_files (exporter.py 163-191), for the next
\* archive: its members are gone through in order and those named *.json
\* are written below the output directory; an exception (from opening the
\* archive, making a directory, or reading or writing a member) ends the
\* turn after `stop` members, with the member it was raised in written in
\* part or not at all; the archive is then deleted or kept, and unlink may
\* fail.  Exceptions are logged.
ExtractArchive ==
  /\ pc = "extract_json_files"
  /\ cfg.extract_json
  /\ Len(extract_log) < Len(downloaded_files)
  /\ \E members \in MemberLists, failed \in BOOLEAN, partial \in BOOLEAN,
        stuck \in BOOLEAN :
     \E stop \in 0..Len(members) :
       /\ ~ failed => ( stop = Len(members) /\ ~ partial )
       /\ partial => stop < Len(members)
       /\ stuck => unlinks(~ failed)
       /\ LET zip_file == downloaded_files[Len(extract_log) + 1]
              written == JsonMembers(members, stop + IF partial THEN 1 ELSE 0)
              removed == unlinks(~ failed) /\ ~ stuck
          IN  /\ fs_files' = fs_files \cup
                   { [ dir |-> CurrentOutputDir,
                       path |-> Resolve(Join(CurrentOutputDir, m)) ] :
                     m \in written }
              /\ fs_dirs' = fs_dirs \cup
                   UNION { DirsMade(Parent(Join(CurrentOutputDir, m))) :
                           m \in written }
              /\ zips_on_disk' = IF removed THEN zips_on_disk \ { zip_file }
                                 ELSE zips_on_disk
              /\ extract_log' = Append(extract_log,
                   [ zip |-> zip_file, entries |-> Range(members),
                     written |-> written, ok |-> ~ failed,
                     removed |-> removed ])
              /\ logged' = logged
                   \cup (IF failed THEN { "Error extracting" } ELSE {})
                   \cup (IF stuck THEN { "Error deleting zip file" } ELSE {})
  /\ UNCHANGED << pc, cfg, include_call, now, output_dirs, client_side,
                  polling_counts,
                  surveys, filtered_surveys, req_index, export_mapping,
                  pending_exports, todo, completed_exports, failed_exports,
                  clock, start_wait_time, poll_exit, dl_index,
                  downloaded_files, export_details_by_survey, export_metadata,
                  report, last_query, waited, obs_log, submit_log,
                  download_log >>

\* extract_json_files returns: at once when extraction is disabled, else
\* after the last archive.
ExtractReturns ==
  /\ pc = "extract_json_files"
  /\ ~ cfg.extract_json \/ Len(extract_log) = Len(downloaded_files)
  /\ pc' = "update_metadata"
  /\ UNCHANGED << cfg, run_state, clock, placement, client_side >>

NextExtract ==
  \/ ExtractArchive
  \/ ExtractReturns

ExtractSpec == InitExtract /\ [][NextExtract]_vars

\* -------------------------------------------------------- authentication
\* Time is followed in steps of the default refresh buffer, for MaxAuthSteps
\* steps; a token lives for the default 3600 seconds or for two steps.
MaxAuthSteps == 13
AuthStep == TOKEN_REFRESH_BUFFER
ShortExpiresIn == 2 * AuthStep

\* What can come back from the POST to the token URL:
\*   issued        200 with an access_token
\*   null_token    200 with "access_token": null
\*   no_token_key  200 with no access_token in the body
\*   not_200       a status below 400 other than 200
\*   rejected      a status from 400 to 599
\*   unreachable   no response (connection error, timeout)
\* and the expires_in of the body, None when it has none.
Responses ==
  { [ kind |-> k, expires_in |-> e ] :
      k \in { "issued", "null_token", "no_token_key", "not_200", "rejected",
              "unreachable" },
      e \in { None, ShortExpiresIn } }

\* token_data.get("expires_in", 3600)
expires_in(response) ==
  IF response.expires_in = None THEN DefaultExpiresIn ELSE response.expires_in

\* authenticate (auth.py 51-94) at time t on a response: the exception it
\* raises or "ok", and the two fields as it leaves them.  Only the branch
\* for status 200 assigns them; raise_for_status raises for a status of 400
\* and above only, and only a RequestException is turned into a
\* VibrentHealthAPIError.
authenticate(response, t) ==
  IF response.kind = "issued"
    THEN [ outcome |-> "ok",
           access_token |-> [ issued_at |-> t, expires_in |-> expires_in(response) ],
           token_expires_at |-> t + expires_in(response) ]
  ELSE IF response.kind = "null_token"
    THEN [ outcome |-> "ok",
           access_token |-> NoToken,
           token_expires_at |-> t + expires_in(response) ]
  ELSE [ outcome |-> IF response.kind = "no_token_key" THEN "KeyError"
                     ELSE IF response.kind = "not_200" THEN "ok"
                     ELSE "VibrentHealthAPIError",
         access_token |-> access_token,
         token_expires_at |-> token_expires_at ]

\* auth_config.get("refresh_buffer", 300)
refresh_buffer == doc.refresh_buffer

\* Variant of NeedsToken: only a missing token is asked for.
NeedsToken_NeverRefreshes == access_token = NoToken

\* The test of get_valid_token (auth.py 98).
NeedsToken ==
  \/ access_token = NoToken
  \/ /\ Truthy(token_expires_at)
     /\ clock >= token_expires_at - refresh_buffer

\* get_valid_token (auth.py 96-100) when the token URL answers with
\* response: what it returns or raises, and whether a request was sent.
get_valid_token(response) ==
  IF NeedsToken
    THEN LET a == authenticate(response, clock)
         IN  [ outcome |-> a.outcome, token |-> a.access_token,
               at |-> clock, requested |-> TRUE, cached |-> access_token,
               access_token |-> a.access_token,
               token_expires_at |-> a.token_expires_at ]
    ELSE [ outcome |-> "ok", token |-> access_token,
           at |-> clock, requested |-> FALSE, cached |-> access_token,
           access_token |-> access_token,
           token_expires_at |-> token_expires_at ]

\* The call as it is remembered.
Remembered(r) ==
  [ outcome |-> r.outcome,
    token |-> IF r.outcome = "ok" THEN r.token ELSE NoToken,
    at |-> r.at, requested |-> r.requested, cached |-> r.cached ]

\* The configurations followed: no refresh buffer, and the default one.
AuthDocs ==
  { [ ValidDoc EXCEPT !.refresh_buffer = b ] : b \in { 0, TOKEN_REFRESH_BUFFER } }

\* A constructed client, before its first request; the clock counts
\* seconds here.
InitAuth ==
  /\ pc = "run_export"
  /\ cfg = DefaultConfig
  /\ surveys = << >>
  /\ export_metadata = ExportMetadata0
  /\ Fresh
  /\ include_call = NoCall
  /\ now = 0
  /\ output_dirs = << Made(0) >>
  /\ fs_dirs = { OutputDir }
  /\ fs_files = {}
  /\ extract_log = << >>
  /\ doc \in AuthDocs
  /\ network = {}
  /\ date_range = NoRange
  /\ access_token = NoToken
  /\ token_expires_at = None
  /\ token_call = NoTokenCall
  /\ environment = STAGING

\* Time passes.
AuthAdvance ==
  /\ clock < MaxAuthSteps * AuthStep
  /\ clock' = clock + AuthStep
  /\ UNCHANGED << pc, cfg, run_state, placement, client_side >>

\* A call of get_valid_token.
GetValidToken ==
  /\ \E response \in Responses :
       LET r == get_valid_token(response)
       IN  /\ access_token' = r.access_token
           /\ token_expires_at' = r.token_expires_at
           /\ token_call' = Remembered(r)
           /\ network' = IF r.requested THEN network \cup { "token" }
                         ELSE network
  /\ UNCHANGED << pc, cfg, run_state, clock, placement, doc, date_range,
                  environment >>

NextAuth ==
  \/ AuthAdvance
  \/ GetValidToken

AuthSpec == InitAuth /\ [][NextAuth]_vars

\* ------------------------------------------- main: from start to request
\* Where main() ends when an exception reaches its handlers (run_export.py
\* 54-62): a ConfigurationError is printed and 1 returned; any other
\* exception is logged and 1 returned, but `logger` is bound only after
\* ConfigManager() returned, and before that the handler itself raises.
after_exception(exception, logger_bound) ==
  IF exception = "ConfigurationError" THEN "config_error"
  ELSE IF logger_bound THEN "failed"
  ELSE "crashed"

\* Variant of AfterConfigManager: main goes on whatever ConfigManager() did.
AfterConfigManager_GoesOn(exception) == "configured"

\* main() after ConfigManager() (run_export.py 31).
AfterConfigManager(exception) ==
  IF exception = "ok" THEN "configured" ELSE after_exception(exception, FALSE)

\* load_dotenv() and ConfigManager(): the file is looked for (and the
\* default one written when there is none), loaded and validated.
ConfigManagerInit ==
  /\ pc = "main"
  /\ pc' = AfterConfigManager(config_manager_init(doc))
  /\ doc' = IF config_manager_init(doc) = "OSError" THEN doc
            ELSE find_config_file(doc)
  /\ UNCHANGED << cfg, run_state, clock, placement, network, date_range,
                  access_token, token_expires_at, token_call, environment >>

\* self.get("environment.environments.<name>"): the index of the entry in
\* the document, 0 when the path does not lead to one.
EnvIndex(d, name) ==
  IF /\ d.top = "mapping" /\ "environment" \in d.sections
     /\ d.environment = "mapping" /\ "environments" \in d.env_keys
     /\ d.environments = "mapping"
     /\ \E i \in 1..Len(d.declared) : d.declared[i].name = name
    THEN CHOOSE i \in 1..Len(d.declared) : d.declared[i].name = name
    ELSE 0

\* get_environment_config (config.py 200-217) raises ConfigurationError
\* when the entry is missing, null or empty.
HasEnvConfig(d, name) ==
  /\ EnvIndex(d, name) # 0
  /\ d.declared[EnvIndex(d, name)].kind = "mapping"
  /\ d.declared[EnvIndex(d, name)].keys # {}

\* env_config.get(key) is falsy: no such key, or a blank value.
BlankUrl(d, name, key) ==
  \/ key \notin d.declared[EnvIndex(d, name)].keys
  \/ d.declared[EnvIndex(d, name)].urls = "blank"

\* The constructors of the exporter, the client and the authentication
\* manager for an environment name: the exception raised, or "ok".
construct(d, name, credentials) ==
  IF ~ credentials THEN "VibrentHealthAPIError"
  ELSE IF ~ HasEnvConfig(d, name) THEN "ConfigurationError"
  ELSE IF BlankUrl(d, name, "token_url") THEN "VibrentHealthAPIError"
  ELSE IF BlankUrl(d, name, "base_url") THEN "VibrentHealthAPIError"
  ELSE "ok"

\* main() from setup_logging() to the constructed exporter (run_export.py
\* 34-51): the environment is VIBRENT_ENVIRONMENT or the default one, the
\* credentials are in the process environment or not; the exporter makes
\* its output directory.
ConstructExporter ==
  /\ pc = "configured"
  /\ \E env_var \in { "", PRODUCTION, "dev" }, credentials \in BOOLEAN :
       LET name == IF env_var # "" THEN env_var ELSE doc.default
           e == construct(doc, name, credentials)
       IN  IF e = "ok"
             THEN /\ pc' = "run_export"
                  /\ environment' = name
                  /\ output_dirs' = Append(output_dirs, Made(now))
                  /\ fs_dirs' = fs_dirs \cup Ancestors(OutputDirAt(Timestamp(now)))
             ELSE /\ pc' = after_exception(e, TRUE)
                  /\ UNCHANGED << environment, output_dirs, fs_dirs >>
  /\ UNCHANGED << cfg, run_state, clock, now, fs_files, doc, network,
                  date_range, access_token, token_expires_at, token_call >>

\* The first request of run_export, get_surveys: _make_request asks for a
\* token and then sends the request, whatever the token is.  A token URL
\* that is not a URL makes requests.post raise before anything is sent.
\* Every exception leaves run_export and ends main() with 1.
GetSurveysRequest ==
  /\ pc = "run_export"
  /\ IF doc.declared[EnvIndex(doc, environment)].urls = "placeholder"
       THEN /\ pc' = "failed"
            /\ UNCHANGED << network, access_token, token_expires_at,
                            token_call >>
       ELSE \E response \in Responses :
              LET r == get_valid_token(response)
              IN  /\ access_token' = r.access_token
                  /\ token_expires_at' = r.token_expires_at
                  /\ token_call' = Remembered(r)
                  /\ network' =
                       network
                         \cup (IF r.requested THEN { "token" } ELSE {})
                         \cup (IF r.outcome = "ok" THEN { "api" } ELSE {})
                  /\ pc' = IF r.outcome = "ok" THEN "requested" ELSE "failed"
  /\ UNCHANGED << cfg, run_state, clock, placement, doc, date_range,
                  environment >>

\* A call of get_date_range by create_export_request, at some reading of
\* the clock.
GetDateRange ==
  /\ pc = "requested"
  /\ \E t \in NowReadings : date_range' = get_date_range(doc, t) @@ [ at |-> t ]
  /\ UNCHANGED << pc, cfg, run_state, clock, placement, doc, network,
                  access_token, token_expires_at, token_call, environment >>

\* main() is entered, with any document where the configuration file is
\* looked for.
InitConfig ==
  /\ pc = "main"
  /\ cfg = DefaultConfig
  /\ surveys = << >>
  /\ export_metadata = ExportMetadata0
  /\ Fresh
  /\ include_call = NoCall
  /\ now = 0
  /\ output_dirs = << >>
  /\ fs_dirs = Ancestors(WorkDir)
  /\ fs_files = {}
  /\ extract_log = << >>
  /\ doc \in ValidationDocs \cup DateDocs
  /\ network = {}
  /\ date_range = NoRange
  /\ access_token = NoToken
  /\ token_expires_at = None
  /\ token_call = NoTokenCall
  /\ environment = ""

NextConfig ==
  \/ ConfigManagerInit
  \/ ConstructExporter
  \/ GetSurveysRequest
  \/ GetDateRange

ConfigSpec == InitConfig /\ [][NextConfig]_vars

\* ------------------------------------------------ update_config and reload
\* The updates followed, by what they hold for the keys the model follows:
\*   default        {"environment": {"default": name}}
\*   null_section   {"environment": None}
\*   declare        {"environment": {"environments": {name: {k: url, ...}}}}
\*                  with a URL for each k in keys
\*   days_back      {"export": {"date_range": {"default_days_back": days}}}
\*   not_a_mapping  a value that is no dict (None, a list)
Update(kind, name, keys, days) ==
  [ kind |-> kind, name |-> name, keys |-> keys, days |-> days ]

Updates ==
  { Update("default", x, {}, 0) : x \in { PRODUCTION, "dev" } }
  \cup { Update("null_section", "", {}, 0), Update("not_a_mapping", "", {}, 0),
         Update("days_back", "", {}, 7) }
  \cup { Update("declare", "dev", k, 0) : k \in SUBSET BothUrls }

\* d["environment"] is a dict: deep_update goes into it instead of
\* replacing it.
IsMapping(d) == "environment" \in d.sections /\ d.environment = "mapping"

\* The index of the entry `name` of environment.environments when
\* deep_update gets as far as that mapping, 0 when there is no such entry.
DeclaredAt(d, name) ==
  IF /\ IsMapping(d) /\ "environments" \in d.env_keys
     /\ d.environments = "mapping"
     /\ \E i \in 1..Len(d.declared) : d.declared[i].name = name
    THEN CHOOSE i \in 1..Len(d.declared) : d.declared[i].name = name
    ELSE 0

\* deep_update (config.py 353-359) for an update that is a dict: a dict
\* value is merged into the dict already under its key, level by level;
\* any other value, and a dict under a key that holds no dict, replaces
\* what was there.  (The URLs an update brings are real ones; the entry
\* "dev" the updates declare has no others.)
deep_update(d, u) ==
  IF u.kind = "default"
    THEN IF IsMapping(d)
           THEN [ d EXCEPT !.env_keys = @ \cup { "default" },
                           !.default = u.name ]
           ELSE [ d EXCEPT !.sections = @ \cup { "environment" },
                           !.environment = "mapping",
                           !.env_keys = { "default" },
                           !.default = u.name ]
  ELSE IF u.kind = "null_section"
    THEN [ d EXCEPT !.sections = @ \cup { "environment" },
                    !.environment = "null",
                    !.env_keys = {} ]
  ELSE IF u.kind = "declare"
    THEN IF ~ IsMapping(d)
           THEN [ d EXCEPT !.sections = @ \cup { "environment" },
                           !.environment = "mapping",
                           !.env_keys = { "environments" },
                           !.environments = "mapping",
                           !.declared =
                             << EnvSettings(u.name, "mapping", u.keys, "real") >> ]
         ELSE IF "environments" \notin d.env_keys \/ d.environments # "mapping"
           THEN [ d EXCEPT !.env_keys = @ \cup { "environments" },
                           !.environments = "mapping",
                           !.declared =
                             << EnvSettings(u.name, "mapping", u.keys, "real") >> ]
         ELSE IF DeclaredAt(d, u.name) = 0
           THEN [ d EXCEPT !.declared =
                    Append(@, EnvSettings(u.name, "mapping", u.keys, "real")) ]
         ELSE IF d.declared[DeclaredAt(d, u.name)].kind # "mapping"
           THEN [ d EXCEPT !.declared[DeclaredAt(d, u.name)] =
                    EnvSettings(u.name, "mapping", u.keys, "real") ]
         ELSE [ d EXCEPT !.declared[DeclaredAt(d, u.name)] =
                  EnvSettings(u.name, "mapping", @.keys \cup u.keys,
                              IF @.keys \subseteq u.keys THEN "real" ELSE @.urls) ]
  ELSE [ d EXCEPT !.sections = @ \cup { "export" },
                  !.date_keys = @ \cup { "default_days_back" },
                  !.default_days_back = u.days ]

\* Variant of update_config: the previous configuration is put back when
\* the merged one does not validate.
update_config_Restores(d, u) ==
  IF u.kind = "not_a_mapping"
    THEN [ config |-> d, exception |-> "AttributeError" ]
  ELSE IF validate_config(deep_update(d, u)) # "ok"
    THEN [ config |-> d, exception |-> validate_config(deep_update(d, u)) ]
  ELSE [ config |-> deep_update(d, u), exception |-> "ok" ]

\* update_config (config.py 361-363): self.config after the call and the
\* exception raised, or "ok".  u.items() raises on a value that is no dict
\* before anything is merged; otherwise the merge is made in self.config
\* and _validate_config runs on the result.
update_config(d, u) ==
  IF u.kind = "not_a_mapping"
    THEN [ config |-> d, exception |-> "AttributeError" ]
    ELSE [ config |-> deep_update(d, u),
           exception |-> validate_config(deep_update(d, u)) ]

\* _load_config as reload calls it, on the path found at construction: a
\* file that is no longer there is a FileNotFoundError, raised as
\* ConfigurationError like every other failure to load.
load_again(f) ==
  IF f.file \in { "absent", "uncreatable" } THEN "ConfigurationError"
  ELSE load_config(f)

\* reload (config.py 342-344) when the file holds f: self.config is
\* assigned once _load_config has returned, and then validated.
reload(d, f) ==
  IF load_again(f) # "ok"
    THEN [ config |-> d, loaded |-> FALSE, exception |-> load_again(f) ]
    ELSE [ config |-> f, loaded |-> TRUE, exception |-> validate_config(f) ]

\* Where the caller of update_config is after the call.
AfterUpdate(exception) ==
  IF exception = "ok" THEN "updated"
  ELSE IF exception = "ConfigurationError" THEN "update_rejected"
  ELSE "update_crashed"

\* Where the caller of reload is after the call.
AfterReload(r) ==
  IF ~ r.loaded THEN "reload_failed"
  ELSE IF r.exception = "ok" THEN "reloaded"
  ELSE IF r.exception = "ConfigurationError" THEN "reload_rejected"
  ELSE "reload_crashed"

\* The caller holds a ConfigManager: it was constructed, and whatever a
\* later call raised was caught.
HoldsManager ==
  pc \in { "configured", "updated", "update_rejected", "update_crashed",
           "reloaded", "reload_failed", "reload_rejected", "reload_crashed" }

\* A call of update_config with some updates.
UpdateConfig ==
  /\ HoldsManager
  /\ \E u \in Updates :
       /\ doc' = update_config(doc, u).config
       /\ pc' = AfterUpdate(update_config(doc, u).exception)
  /\ UNCHANGED << cfg, run_state, clock, placement, network, date_range,
                  access_token, token_expires_at, token_call, environment >>

\* A call of reload, with whatever the configuration file holds by then.
Reload ==
  /\ HoldsManager
  /\ \E f \in ValidationDocs :
       /\ doc' = reload(doc, f).config
       /\ pc' = AfterReload(reload(doc, f))
  /\ UNCHANGED << cfg, run_state, clock, placement, network, date_range,
                  access_token, token_expires_at, token_call, environment >>

NextUpdate ==
  \/ ConfigManagerInit
  \/ UpdateConfig
  \/ Reload

UpdateSpec == InitConfig /\ [][NextUpdate]_vars

\* ------------------------------------------------------------------ main
\* run_export has ended: by returning (early or at its end) or by raising.
Ended == pc \in { "returned", "done", "raised" }

\* The exit code of main() once run_export has ended: 1 when run_export
\* raised (main logs "Application failed" and returns 1), 0 when it returned.
ExitCode == IF pc = "raised" THEN 1 ELSE 0

\* ============================================================ properties
PollStates == { "poll_top", "poll_iter" }

\* run_export is past wait_for_exports_completion, which returned normally.
PollReturned == poll_exit # "none"

\* The export ids the poller was started with.
PolledIds == MappingValues(export_mapping)

\* The first COMPLETED / FAILED result the poller got for e ("none" if none).
RECURSIVE FirstTerminalFrom(_, _)
FirstTerminalFrom(e, i) ==
  IF i > Len(obs_log) THEN "none"
  ELSE IF obs_log[i].id = e /\ obs_log[i].result \in { COMPLETED, FAILED }
    THEN obs_log[i].result
    ELSE FirstTerminalFrom(e, i + 1)

FirstTerminal(e) == FirstTerminalFrom(e, 1)

ObservedAs(e, r) == \E i \in 1..Len(obs_log) : obs_log[i] = [ id |-> e, result |-> r ]

Count(seq, x) == Cardinality({ i \in 1..Len(seq) : seq[i] = x })

Failures == export_metadata.failures

\* More time than a configured, non-zero max_wait_time has passed since
\* polling started.
BudgetExceeded ==
  /\ cfg.max_wait_time # None
  /\ cfg.max_wait_time > 0
  /\ clock - start_wait_time > cfg.max_wait_time

PastRequests == pc \notin { "get_surveys", "filter_surveys", "request_exports" }

PastDownloads ==
  pc \in { "extract_json_files", "update_metadata", "save_export_metadata",
           "log_export_summary", "done" }

\* The entries of the failures list recorded by one stage, in order.
StageFailures(stage) == SelectSeq(Failures, LAMBDA f : f.stage = stage)

FailedSubmissions == SelectSeq(submit_log, LAMBDA r : ~ r.ok)
FailedDownloads == SelectSeq(download_log, LAMBDA r : ~ r.ok)
OkDownloads == SelectSeq(download_log, LAMBDA r : r.ok)

\* ---------------------------------------------------------------- C1
\* C1: once update_metadata has run, successful_exports + failed_exports of
\* the report equals the number of filtered-in surveys.
C1_CountsCoverFiltered ==
  export_metadata.ended =>
    export_metadata.successful_exports + export_metadata.failed_exports
      = Len(filtered_surveys)

\* ---------------------------------------------------------------- C2
\* C2: when wait_for_exports_completion has returned and every polled id
\* has reported COMPLETED or FAILED to it, nothing is pending and every id
\* is in exactly one of completed / failed: in completed iff the first
\* terminal status observed for it was COMPLETED, in failed iff it was
\* FAILED.  An id whose latest query reported SUBMITTED or IN_PROGRESS is
\* still pending.
C2_PollerPartition ==
  /\ ( PollReturned /\ \A e \in PolledIds : FirstTerminal(e) # "none" ) =>
       /\ pending_exports = {}
       /\ \A e \in PolledIds :
            /\ Count(completed_exports, e) + Count(failed_exports, e) = 1
            /\ e \in Range(completed_exports) <=> FirstTerminal(e) = COMPLETED
            /\ e \in Range(failed_exports) <=> FirstTerminal(e) = FAILED
  /\ last_query.result \in { SUBMITTED, IN_PROGRESS } =>
       last_query.id \in pending_exports

\* Two ids that were both seen in progress first end as one completed and
\* one failed, nothing pending.
C2_Witness ==
  /\ poll_exit = "resolved"
  /\ Len(completed_exports) = 1
  /\ Len(failed_exports) = 1
  /\ waited = PolledIds
  /\ \A e \in PolledIds : FirstTerminal(e) # "none"

\* ---------------------------------------------------------------- C3
\* C3: when the loop is left because the budget test at the top of an
\* iteration finds the maximum wait time exceeded, the leftover pending set
\* is non-empty and its ids are neither completed nor failed, have no entry
\* in the report's failures list and are never downloaded; and the test
\* does end the loop whenever ids are pending and the budget is exceeded.
C3_TimeoutLeftover ==
  /\ [] ( poll_exit = "timeout" =>
            /\ pending_exports # {}
            /\ pending_exports \cap Range(completed_exports) = {}
            /\ pending_exports \cap Range(failed_exports) = {}
            /\ \A i \in 1..Len(Failures) :
                 ~ ( Failures[i].key = "exportId"
                     /\ Failures[i].id \in pending_exports )
            /\ \A i \in 1..Len(download_log) :
                 download_log[i].id \notin pending_exports )
  /\ [][ ( pc = "poll_top" /\ pending_exports # {} /\ BudgetExceeded ) =>
           ( poll_exit' = "timeout" /\ pc' = "download_exports"
             /\ pending_exports' = pending_exports ) ]_vars

\* A run that timed out with an id left over, downloaded the export that
\* did complete, and finished.
C3_Witness ==
  /\ pc = "done"
  /\ poll_exit = "timeout"
  /\ pending_exports # {}
  /\ download_log # << >>

\* ---------------------------------------------------------------- C4
\* Entries the poller wrote for export id e ({exportId, failureReason, status}).
PollerEntries(e) == Count(Failures, FailureEntry("exportId", e, "none"))

\* C4: an export id the poller observed FAILED is out of pending, is in the
\* failed result and has exactly one poller entry {exportId, failureReason,
\* status} in the failures list; an id that was not observed FAILED (one
\* observed COMPLETED in particular) has none.
C4_FailedStatusRecorded ==
  \A e \in ExportIds :
    /\ ObservedAs(e, FAILED) =>
         /\ e \notin pending_exports
         /\ Count(failed_exports, e) = 1
         /\ PollerEntries(e) = 1
    /\ ~ ObservedAs(e, FAILED) => PollerEntries(e) = 0

C4_Witness ==
  /\ pc = "done"
  /\ \E e1, e2 \in ExportIds :
       ObservedAs(e1, FAILED) /\ ObservedAs(e2, COMPLETED)

\* ---------------------------------------------------------------- C5
\* A status query of e happens in this step.
QueryStep(e) ==
  /\ pc = "poll_iter"
  /\ last_query'.id = e
  /\ ( todo' # todo \/ pc' = "raised" )

\* C5: with continue_on_failure enabled, an id whose status query raised is
\* in the failed result, out of pending and never queried again; the query
\* that raised touches no other id, and the iteration goes on until every
\* id of its snapshot has been queried.
C5_QueryErrorIsolated ==
  /\ [] ( cfg.continue_on_failure =>
            \A e \in ExportIds :
              ObservedAs(e, "error") =>
                /\ Count(failed_exports, e) = 1
                /\ e \notin pending_exports
                /\ e \notin todo
                /\ pc # "raised" )
  /\ [][ cfg.continue_on_failure =>
           \A e \in ExportIds :
             /\ ( QueryStep(e) /\ last_query'.result = "error" ) =>
                  /\ failed_exports' = Append(failed_exports, e)
                  /\ completed_exports' = completed_exports
                  /\ pending_exports' = pending_exports \ { e }
             /\ QueryStep(e) =>
                  /\ ~ ObservedAs(e, "error")
                  /\ todo' = todo \ { e }
                  /\ pc' = IF todo' = {} THEN "poll_top" ELSE "poll_iter" ]_vars

\* After the query of one id raised, another id was still queried and
\* completed, and the run went on to the end.
C5_Witness ==
  /\ cfg.continue_on_failure
  /\ pc = "done"
  /\ Len(obs_log) = 2
  /\ obs_log[1].result = "error"
  /\ obs_log[2].result = COMPLETED
  /\ obs_log[2].id # obs_log[1].id

\* ---------------------------------------------------------------- C6
\* C6: with continue_on_failure disabled, a status query that raises ends
\* the run: the exception leaves run_export (logged by its except clause),
\* the query that raised is the last one, and nothing is downloaded,
\* extracted or saved; nothing happens after the exception.
C6_QueryErrorAborts ==
  /\ [] ( ( ~ cfg.continue_on_failure
            /\ \E e \in ExportIds : ObservedAs(e, "error") ) =>
            /\ pc = "raised"
            /\ "Export process failed" \in logged
            /\ obs_log[Len(obs_log)].result = "error"
            /\ last_query = obs_log[Len(obs_log)]
            /\ failed_exports \o completed_exports
                 = SelectSeq(failed_exports \o completed_exports,
                             LAMBDA x : x # last_query.id)
            /\ download_log = << >>
            /\ zips_on_disk = {}
            /\ ~ export_metadata.ended
            /\ ~ report.written )
  /\ [][ pc # "raised" ]_vars

\* The query of one id raised while another id of the same iteration had
\* not been queried yet.
C6_Witness ==
  /\ ~ cfg.continue_on_failure
  /\ pc = "raised"
  /\ last_query.result = "error"
  /\ todo \ { last_query.id } # {}

\* ---------------------------------------------------------------- C7
\* C7 as stated: the poll loop terminates.
C7_PollLoopTerminates == ( pc \in PollStates ) ~> ( pc \notin PollStates )

\* C7 as amended: the loop is left at the top of an iteration as soon as
\* nothing is pending; it is left normally only there, with nothing pending
\* or with the budget exceeded; and with a non-zero maximum wait time it is
\* always left, whatever the exports report.
C7_PollLoopExits ==
  /\ [][ ( pc = "poll_top" /\ pending_exports = {} ) =>
           ( pc' = "download_exports" /\ poll_exit' = "resolved" ) ]_vars
  /\ [][ ( pc \in PollStates /\ pc' \notin PollStates /\ pc' # "raised" ) =>
           /\ pc = "poll_top"
           /\ pc' = "download_exports"
           /\ pending_exports = {} \/ BudgetExceeded ]_vars
  /\ ( pc \in PollStates /\ Truthy(cfg.max_wait_time) ) ~>
       ( pc \notin PollStates )

\* The budget ended a loop in which no export ever became terminal.
C7_Witness ==
  /\ poll_exit = "timeout"
  /\ Truthy(cfg.max_wait_time)
  /\ obs_log = << >>
  /\ waited = PolledIds
  /\ pending_exports = PolledIds

\* ---------------------------------------------------------------- C8
\* request_exports ran over a non-empty filtered list and no request succeeded.
AllRequestsFailed ==
  /\ filtered_surveys # << >>
  /\ pc \in { "returned", "done" }
  /\ export_mapping = << >>

\* C8: a run in which every export request failed still goes through the
\* metadata update, the save and the summary, and (saving being enabled and
\* the write succeeding) leaves a report holding the export_request
\* failure entries.
C8_ReportWhenAllRequestsFail ==
  AllRequestsFailed =>
    /\ "No exports were successfully requested" \in logged
    /\ pc = "done"
    /\ export_metadata.ended
    /\ ( cfg.save_metadata /\ "Failed to save metadata" \notin logged ) =>
         ( report.written /\ report.content.failures = Failures )

LastOkExport(sid) ==
  LET ok == { i \in 1..Len(submit_log) : submit_log[i].ok /\ submit_log[i].sid = sid }
  IN  submit_log[CHOOSE i \in ok : \A j \in ok : j <= i].eid

C10_DownloadFailureRecorded ==
  /\ Len(download_log) <= Len(completed_exports)
  /\ PastDownloads => Len(download_log) = Len(completed_exports)
  /\ \A i \in 1..Len(download_log) : download_log[i].id = completed_exports[i]
  /\ \A i, j \in 1..Len(download_log) :
       download_log[i].id = download_log[j].id => i = j
  /\ StageFailures("download") =
       [ j \in 1..Len(FailedDownloads) |->
           FailureEntry("exportId", FailedDownloads[j].id, "download") ]
  /\ downloaded_files =
       [ j \in 1..Len(OkDownloads) |-> OkDownloads[j].id ]

\* The first download failed and the second export was still downloaded.
C10_Witness ==
  /\ pc = "done"
  /\ Len(download_log) = 2
  /\ ~ download_log[1].ok
  /\ download_log[2].ok
  /\ Len(downloaded_files) = 1


\* --------------------------------------------------------------- C11
\* C11: when the fetch returned no survey, or no fetched survey passed the
\* filter, run_export has returned: no export request, no status query and
\* no download was made, no file is on disk and no report was written.
C11_StopsWithNothingToExport ==
  ( \/ pc \notin { "get_surveys", "raised" } /\ surveys = << >>
    \/ /\ pc \notin { "get_surveys", "filter_surveys" }
       /\ surveys # << >>
       /\ filtered_surveys = << >> )
  => /\ pc = "returned"
     /\ submit_log = << >>
     /\ export_mapping = << >>
     /\ last_query.result = "none"
     /\ obs_log = << >>
     /\ download_log = << >>
     /\ zips_on_disk = {}
     /\ ~ export_metadata.ended
     /\ report = NoReport

\* Surveys were fetched and the filter kept none of them.
C11_Witness ==
  /\ pc = "returned"
  /\ surveys # << >>
  /\ filtered_surveys = << >>
  /\ "No surveys match the filter criteria" \in logged

\* --------------------------------------------------------------- C12
\* C12: an error while serializing or writing the run report is logged,
\* propagates out of run_export and ends the process with a non-zero exit
\* code.
C12_ReportWriteErrorPropagates ==
  "Failed to save metadata" \in logged =>
    /\ pc = "raised"
    /\ "Export process failed" \in logged
    /\ ExitCode = 1

\* --------------------------------------------------------------- C13
\* C13: the report file is written at most once per run, by the save step
\* only, which comes after the request, poll, download, extraction and
\* metadata-update stages, and only when metadata saving is enabled; what
\* is written is the report with its final counts and end time.
C13_ReportWrittenOnceAtEnd ==
  /\ [] ( report.written =>
            /\ cfg.save_metadata
            /\ pc \in { "log_export_summary", "done" }
            /\ req_index > Len(filtered_surveys)
            /\ PollReturned
            /\ dl_index > Len(completed_exports)
            /\ export_metadata.ended
            /\ report.content = export_metadata
            /\ report.content.successful_exports = Len(completed_exports)
            /\ report.content.failed_exports
                 = Len(failed_exports) + Len(Failures) )
  /\ [][ report' # report =>
           /\ pc = "save_export_metadata"
           /\ pc' = "log_export_summary"
           /\ ~ report.written ]_vars
  /\ [][ report.written => report' = report ]_vars

\* A report was written at the end of a run with two downloads.
C13_Witness ==
  /\ pc = "done"
  /\ report.written
  /\ Len(download_log) = 2

\* --------------------------------------------------------------- C14
\* C14: an exception that escapes a stage of run_export (the survey fetch,
\* or a status query with continue_on_failure disabled) is logged and
\* re-raised, so that main exits with 1; run_export returns normally only
\* through one of its return statements; and the step that raises leaves
\* the output directory, the files on disk and the report as they were.
C14_EscapingExceptionReraised ==
  /\ [] ( pc = "raised" => "Export process failed" \in logged /\ ExitCode = 1 )
  /\ [] ( pc = "returned" =>
            \/ surveys = << >> /\ "No surveys found" \in logged
            \/ /\ filtered_surveys = << >>
               /\ "No surveys match the filter criteria" \in logged
            \/ /\ export_mapping = << >>
               /\ "No exports were successfully requested" \in logged )
  /\ [] ( ( last_query.result = "error" /\ ~ cfg.continue_on_failure )
            => pc = "raised" )
  /\ [][ ( pc # "raised" /\ pc' = "raised" ) =>
           /\ fs_dirs' = fs_dirs
           /\ OutputDir \in fs_dirs'
           /\ fs_files' = fs_files
           /\ zips_on_disk' = zips_on_disk
           /\ report' = report
           /\ export_metadata' = export_metadata ]_vars
  /\ [][ pc = "raised" => pc' = "raised" ]_vars

\* The survey fetch raised.
C14_Witness ==
  /\ pc = "raised"
  /\ surveys = << >>
  /\ submit_log = << >>

\* --------------------------------------------------------------- C15
\* Every fetched survey was filtered in, every export request succeeded,
\* every status query answered COMPLETED at once and every download
\* succeeded, and the run is over.
AllWentWell ==
  /\ pc = "done"
  /\ filtered_surveys = surveys
  /\ Len(submit_log) = Len(surveys)
  /\ \A i \in 1..Len(submit_log) : submit_log[i].ok
  /\ poll_exit = "resolved"
  /\ waited = {}
  /\ \A i \in 1..Len(obs_log) : obs_log[i].result = COMPLETED
  /\ \A i \in 1..Len(download_log) : download_log[i].ok

\* C15: when all N fetched surveys are filtered in and every request, poll
\* and download succeeds at once, the report has total_surveys = N,
\* successful_exports = N, failed_exports = 0, N entries in surveys[] and
\* no failures.
C15_AllSucceedReport ==
  AllWentWell =>
    /\ export_metadata.total_surveys = Len(surveys)
    /\ export_metadata.successful_exports = Len(surveys)
    /\ export_metadata.failed_exports = 0
    /\ Len(export_metadata.surveys) = Len(surveys)
    /\ export_metadata.failures = << >>

\* --------------------------------------------------------------- C16
\* The entries of the export mapping that carry export id e.
SurveysOf(e) == { i \in 1..Len(export_mapping) : export_mapping[i].eid = e }

\* C16: every export id in the poller's pending set is the export id of
\* exactly one survey of the export mapping.
C16_PendingFromOneSurvey ==
  \A e \in pending_exports : Cardinality(SurveysOf(e)) = 1

\* --------------------------------------------------------------- C19
\* C19: with an inclusion list configured, should_include_survey returns
\* true exactly for the members of the inclusion list, whatever the
\* exclusion list holds.
C19_InclusionListDecides ==
  ( include_call # NoCall /\ cfg.survey_ids # NoList ) =>
    ( include_call.result <=> include_call.id \in cfg.survey_ids )

\* A survey that is on both lists was asked about, and is included.
C19_Witness ==
  /\ cfg.survey_ids # NoList
  /\ cfg.exclude_survey_ids # NoList
  /\ include_call.id \in cfg.survey_ids
  /\ include_call.id \in cfg.exclude_survey_ids
  /\ include_call.result

\* --------------------------------------------------------------- C20
\* C20: with no inclusion list configured, should_include_survey returns
\* false exactly when an exclusion list is configured and holds the id; so
\* with neither list configured it returns true.
C20_ExclusionListDecides ==
  ( include_call # NoCall /\ cfg.survey_ids = NoList ) =>
    /\ ~ include_call.result <=>
         ( /\ cfg.exclude_survey_ids # NoList
           /\ include_call.id \in cfg.exclude_survey_ids )
    /\ cfg.exclude_survey_ids = NoList => include_call.result

\* A survey on the exclusion list was asked about, with no inclusion list,
\* and is dropped.
C20_Witness ==
  /\ cfg.survey_ids = NoList
  /\ cfg.exclude_survey_ids # NoList
  /\ include_call.id \in cfg.exclude_survey_ids
  /\ ~ include_call.result

\* --------------------------------------------------------------- C17
\* C17: every file written by a download or an extraction of a run lies
\* below that run's output directory.
C17_FilesUnderOutputDir ==
  \A f \in fs_files : Under(f.path, f.dir)

\* --------------------------------------------------------------- C18
\* C18: no two exporters, whenever they are constructed, have the same
\* output directory.
C18_OutputDirUnique ==
  \A i, j \in 1..Len(output_dirs) :
    i # j => OutputDirAt(output_dirs[i].ts) # OutputDirAt(output_dirs[j].ts)

\* --------------------------------------------------------------- C21
\* C21: with an empty inclusion list, should_include_survey does not apply
\* the inclusion rule: it answers as the exclusion rule does, false for a
\* member of a configured exclusion list and true otherwise.
C21_EmptyInclusionFallsThrough ==
  ( include_call # NoCall /\ cfg.survey_ids = {} ) =>
    ( include_call.result <=>
        ~ ( /\ cfg.exclude_survey_ids # NoList
            /\ include_call.id \in cfg.exclude_survey_ids ) )

\* --------------------------------------------------------------- C22
\* The surveys of the fetched list that pass should_include_survey, in
\* their original order, and the first n of a sequence.
Passing == SelectSeq(surveys, LAMBDA id : should_include_survey(id))
FirstN(seq, n) == SubSeq(seq, 1, IF n < Len(seq) THEN n ELSE Len(seq))
Filtered == pc \in { "returned", "request_exports" }

\* C22 as stated: for every cap N, filter_surveys returns the first N
\* passing surveys in their original order, fewer only when fewer pass.
C22_CapKeepsFirstN ==
  ( Filtered /\ cfg.max_surveys # None ) =>
    filtered_surveys = FirstN(Passing, cfg.max_surveys)

\* C22: for every cap N >= 1, filter_surveys returns the first N passing
\* surveys in their original order, fewer only when fewer pass, and the
\* cap does not count the surveys filtered out; with a cap of 0, as with no
\* cap, it returns every passing survey.
C22_NonZeroCapKeepsFirstN ==
  Filtered =>
    IF cfg.max_surveys # None /\ cfg.max_surveys >= 1
      THEN filtered_surveys = FirstN(Passing, cfg.max_surveys)
      ELSE filtered_surveys = Passing

\* A cap of one, a first survey that is filtered out and a second that is
\* kept.
C22_Witness ==
  /\ Filtered
  /\ cfg.max_surveys = 1
  /\ Len(surveys) = 2
  /\ ~ should_include_survey(surveys[1])
  /\ filtered_surveys = << surveys[2] >>

\* --------------------------------------------------------------- C23
\* get_date_range was called; both absolute dates are configured.
DateRangeCalled == date_range.outcome # "none"
BothAbsolute ==
  /\ TruthyText(absolute_date(doc, "absolute_start_date"))
  /\ TruthyText(absolute_date(doc, "absolute_end_date"))

\* C23: when both an absolute start date and an absolute end date are
\* configured, the range returned is the two dates, whatever days-back and
\* the clock are; when at most one is configured, the range returned ends
\* now and starts days-back days earlier, and no date is parsed.
C23_AbsoluteIffBothDates ==
  DateRangeCalled =>
    /\ ( date_range.outcome = "ok" /\ BothAbsolute ) =>
         /\ date_range.start_time = iso_timestamp_ms(doc.absolute_start_date)
         /\ date_range.end_time = iso_timestamp_ms(doc.absolute_end_date)
    /\ ( date_range.outcome = "ok" /\ ~ BothAbsolute ) =>
         /\ date_range.end_time = date_range.at
         /\ date_range.start_time =
              MsSub(date_range.at, DaysMs(days_back(doc)))
    /\ date_range.outcome = "ValueError" => BothAbsolute
    /\ ( ~ BothAbsolute /\ days_back(doc) # None ) => date_range.outcome = "ok"

\* Only the start date is configured, and the range is the seven days that
\* end now.
C23_Witness ==
  /\ DateRangeCalled
  /\ doc.date_keys = DateKeys
  /\ doc.absolute_start_date = "2024-01-01"
  /\ doc.absolute_end_date = "None"
  /\ doc.default_days_back = 7
  /\ date_range.outcome = "ok"
  /\ date_range.end_time = date_range.at
  /\ date_range.start_time.days = date_range.at.days - 7

\* --------------------------------------------------------------- C24
\* C24: a range resolved in the relative case satisfies
\* end - start = d * MS_PER_DAY for the configured days-back value d (30
\* when the key is missing).
C24_RelativeRangeIsDaysBack ==
  ( DateRangeCalled /\ date_range.outcome = "ok" /\ ~ BothAbsolute ) =>
    MsSub(date_range.end_time, date_range.start_time) =
      Ms(IF "default_days_back" \in doc.date_keys
           THEN doc.default_days_back ELSE DefaultDaysBack, 0)

\* A relative range was resolved with days-back 7, and is seven days long.
C24_Witness ==
  /\ DateRangeCalled
  /\ date_range.outcome = "ok"
  /\ ~ BothAbsolute
  /\ "default_days_back" \in doc.date_keys
  /\ doc.default_days_back = 7
  /\ MsSub(date_range.end_time, date_range.start_time) = Ms(7, 0)

\* --------------------------------------------------------------- C26
\* C26: extract_json_files, whatever fails to extract or to be deleted,
\* returns to run_export, which goes on to update_metadata; it leaves the
\* failures list of the run report as it was; and, when extraction is
\* enabled, it has gone through every downloaded archive, in order.
C26_ExtractionErrorsContained ==
  [][ pc = "extract_json_files" =>
        /\ pc' = "update_metadata"
        /\ export_metadata'.failures = export_metadata.failures
        /\ cfg.extract_json =>
             /\ Len(extract_log') = Len(downloaded_files)
             /\ \A i \in 1..Len(downloaded_files) :
                  extract_log'[i].zip = downloaded_files[i] ]_vars

\* The first of two archives failed to extract; the second was extracted
\* and deleted, and the run went on.
C26_Witness ==
  /\ pc = "update_metadata"
  /\ Len(extract_log) = 2
  /\ ~ extract_log[1].ok
  /\ extract_log[2].ok /\ extract_log[2].removed
  /\ "Error extracting" \in logged
  /\ extract_log[1].zip \in zips_on_disk
  /\ extract_log[2].zip \notin zips_on_disk

\* --------------------------------------------------------------- C25
\* C25: of every archive gone through, only members named *.json were
\* written and every other member was skipped (and after a successful
\* extraction all its *.json members are written); an archive is deleted
\* only if its extraction succeeded and remove_zip_after_extract is set;
\* and an archive whose extraction failed is still there.
C25_OnlyJsonWrittenZipKeptOnFailure ==
  /\ \A i \in 1..Len(extract_log) :
       LET e == extract_log[i]
       IN  /\ \A m \in e.written : m \in e.entries /\ EndsWithJson(m)
           /\ e.ok => e.written = { m \in e.entries : EndsWithJson(m) }
           /\ e.removed => ( e.ok /\ cfg.remove_zip_after_extract )
           /\ e.removed <=> e.zip \notin zips_on_disk
           /\ ~ e.ok => e.zip \in zips_on_disk
  /\ \A f \in fs_files :
       \E i \in 1..Len(extract_log) :
         \E m \in extract_log[i].written :
           /\ EndsWithJson(m)
           /\ f.path = Resolve(Join(CurrentOutputDir, m))

\* The first archive failed to extract after one of its members and is
\* kept; the second, with a *.json member and another one, was extracted,
\* its other member skipped, and it was deleted.
C25_Witness ==
  /\ Len(extract_log) = 2
  /\ ~ extract_log[1].ok
  /\ extract_log[1].written # {}
  /\ extract_log[1].zip \in zips_on_disk
  /\ extract_log[2].ok /\ extract_log[2].removed
  /\ extract_log[2].zip \notin zips_on_disk
  /\ extract_log[2].written # {}
  /\ extract_log[2].written # extract_log[2].entries

\* --------------------------------------------------------------- C27
\* C27: a file written by download_export is named
\* <exportId>_<headerFilename> when the response carries a disposition
\* header with a filename, and export_<exportId>.zip when it carries none.
C27_DownloadFileName ==
  \A i \in 1..Len(download_log) :
    LET c == download_log[i]
    IN  c.written =>
          c.filename =
            IF c.header.filename = NoHeader
              THEN << Comp(c.id, "export.zip") >>
              ELSE download_filename(c.id, c.header.filename)

\* --------------------------------------------------------------- C28
\* Loading or validating the configuration document fails.
ConfigFails == config_manager_init(doc) # "ok"

\* C28: in a run of main() in which loading or validating the
\* configuration fails, or in which a ConfigurationError is raised later,
\* no token request and no API request is ever sent, and main() does not
\* get past the construction of its objects.
C28_ConfigFailureBeforeNetwork ==
  ( ConfigFails \/ pc = "config_error" ) =>
    /\ network = {}
    /\ pc \in { "main", "config_error", "crashed" }

\* The file was found and read, validation failed, and main() has ended
\* with no request sent.
C28_Witness ==
  /\ pc = "config_error"
  /\ doc.file = "found"
  /\ load_config(doc) = "ok"
  /\ validate_config(doc) = "ConfigurationError"
  /\ network = {}

\* --------------------------------------------------------------- C29
\* What the claim requires of a document: every required section present,
\* a valid default environment name, and a base URL and a token URL in
\* every declared environment.
MeetsRequirements(d) ==
  /\ RequiredSections \subseteq d.sections
  /\ d.top = "mapping"
  /\ d.environment = "mapping"
  /\ "default" \in d.env_keys
  /\ d.default \in { STAGING, PRODUCTION }
  /\ d.environments = "mapping"
  /\ \A i \in 1..Len(d.declared) :
       d.declared[i].kind = "mapping" /\ BothUrls \subseteq d.declared[i].keys

\* C29: ConfigManager() succeeds only for a document that meets the
\* requirements, and for every document that is read and does not meet
\* them it raises ConfigurationError.
C29_ViolationsAreConfigurationErrors ==
  ( pc # "main" /\ doc.file = "found" ) =>
    /\ config_manager_init(doc) = "ok" => MeetsRequirements(doc)
    /\ ~ MeetsRequirements(doc) => config_manager_init(doc) = "ConfigurationError"

\* --------------------------------------------------------------- C30
\* A token is expired at time t: t is within the refresh buffer of its
\* expiry, or past it.
ExpiredAt(token, t) ==
  t >= token.issued_at + token.expires_in - doc.refresh_buffer

\* C30: a call of get_valid_token returns a token or raises an
\* authentication error; a token it returns was issued and is not expired;
\* and it sends a token request exactly when no token was cached or the
\* cached one was expired.
C30_ValidTokenOrAuthError ==
  token_call.outcome # "none" =>
    /\ token_call.outcome \in { "ok", "VibrentHealthAPIError" }
    /\ token_call.outcome = "ok" =>
         /\ token_call.token # NoToken
         /\ ~ ExpiredAt(token_call.token, token_call.at)
    /\ token_call.requested <=>
         \/ token_call.cached = NoToken
         \/ ExpiredAt(token_call.cached, token_call.at)

\* --------------------------------------------------------------- C31
\* C31: the maximum-wait budget is looked at only at the top of a polling
\* iteration.  An iteration starts from the top with the whole pending set
\* as its snapshot; inside it every step is the status query of one id of
\* the snapshot not queried yet, whatever the clock says, and the iteration
\* goes back to the top only once the snapshot is used up (the only other
\* way out is a query error raised with continue_on_failure disabled); the
\* loop is left on the budget only from the top.
C31_BudgetCheckedBetweenIterations ==
  /\ [] ( pc = "poll_iter" =>
            /\ todo # {}
            /\ todo \subseteq pending_exports
            /\ poll_exit = "none" )
  /\ [][ ( pc = "poll_top" /\ pc' = "poll_iter" ) =>
           ( todo' = pending_exports /\ ~ BudgetExceeded ) ]_vars
  /\ [][ pc = "poll_iter" =>
           /\ poll_exit' = "none"
           /\ pc' \in { "poll_iter", "poll_top", "raised" }
           /\ last_query'.id \in todo
           /\ pc' # "raised" =>
                /\ todo' = todo \ { last_query'.id }
                /\ ( pc' = "poll_top" ) <=> ( todo' = {} )
           /\ pc' = "raised" =>
                ( ~ cfg.continue_on_failure /\ last_query'.result = "error" )
         ]_vars
  /\ [][ ( poll_exit = "none" /\ poll_exit' = "timeout" ) =>
           ( pc = "poll_top" /\ BudgetExceeded /\ todo = {} ) ]_vars

\* The budget ran out in the middle of an iteration: one id of the snapshot
\* has been queried and another is still to be queried.
C31_Witness ==
  /\ pc = "poll_iter"
  /\ BudgetExceeded
  /\ todo # {}
  /\ last_query.id \in pending_exports \ todo

\* --------------------------------------------------------------- C32
\* C32: export requests are submitted one at a time in filtered order (the
\* i-th submission is for the i-th filtered survey), and every submission
\* that is followed by another one is followed by the fixed delay first,
\* whether it succeeded or failed.
C32_DelayBetweenSubmissions ==
  /\ Len(submit_log) <= Len(filtered_surveys)
  /\ \A i \in 1..Len(submit_log) :
       /\ submit_log[i].idx = i
       /\ submit_log[i].sid = filtered_surveys[i]
  /\ \A i \in 1..(Len(submit_log) - 1) : submit_log[i].slept

\* --------------------------------------------------------------- C33
\* The survey ids that export id e has been associated with.
AssociatedWith(e) == { s \in SurveyIds : export_details_by_survey[s] = e }

\* The positions of the export mapping that hold export id e.
PositionsOf(e) == { i \in 1..Len(export_mapping) : export_mapping[i].eid = e }

\* C33: an export that was downloaded successfully is associated with
\* exactly one survey id, the one at the first position of the export
\* mapping (in insertion order) that holds its export id; an export that
\* was not downloaded successfully is associated with no survey.
C33_FirstMatchAssociation ==
  \A e \in ExportIds :
    IF \E i \in 1..Len(download_log) : download_log[i] = [ id |-> e, ok |-> TRUE ]
      THEN /\ PositionsOf(e) # {}
           /\ AssociatedWith(e) =
                { export_mapping[CHOOSE i \in PositionsOf(e) :
                                   \A j \in PositionsOf(e) : i <= j].sid }
      ELSE AssociatedWith(e) = {}

\* Two surveys were given the same export id and its download succeeded,
\* while no other export was associated.
C33_Witness ==
  /\ Len(export_mapping) = 2
  /\ export_mapping[1].eid = export_mapping[2].eid
  /\ download_log = << [ id |-> export_mapping[1].eid, ok |-> TRUE ] >>
  /\ AssociatedWith(export_mapping[1].eid) = { export_mapping[1].sid }
  /\ pc = "done"

\* --------------------------------------------------------------- C34
\* How many status queries ended with result r.
Observed(r) == Cardinality({ i \in 1..Len(obs_log) : obs_log[i].result = r })

\* C34: update_metadata sets successful_exports to the number of exports
\* the poller observed COMPLETED, downloaded or not, and failed_exports to
\* the number of ids in the poller's failed result (observed FAILED, or
\* failed by a query error) plus the number of entries in the failures list
\* (failed requests, exports observed FAILED, failed downloads): an export
\* observed FAILED counts twice, and a completed export whose download
\* failed counts in both numbers.
C34_ReportCounts ==
  export_metadata.ended =>
    /\ export_metadata.successful_exports = Observed(COMPLETED)
    /\ export_metadata.failed_exports =
         ( Observed(FAILED) + Observed("error") )
         + ( Len(FailedSubmissions) + Observed(FAILED) + Len(FailedDownloads) )
    /\ Len(failed_exports) = Observed(FAILED) + Observed("error")
    /\ Len(Failures) =
         Len(FailedSubmissions) + Observed(FAILED) + Len(FailedDownloads)

\* One export polled FAILED and the other completed but failed to download:
\* one successful export and three failed ones are reported.
C34_Witness ==
  /\ pc = "done"
  /\ Observed(FAILED) = 1
  /\ Observed(COMPLETED) = 1
  /\ Len(FailedDownloads) = 1
  /\ Len(FailedSubmissions) = 0
  /\ export_metadata.successful_exports = 1
  /\ export_metadata.failed_exports = 3

\* --------------------------------------------------------------- C35
\* C35: at the top of the polling loop, so at the end of every iteration,
\* the completed, failed and pending ids are pairwise disjoint and together
\* are the export ids of the export mapping; and the cumulative counts of
\* the progress message add up to the number of distinct export ids polled,
\* each count being the size of its set.
C35_IterationPartition ==
  pc = "poll_top" =>
    /\ Range(completed_exports) \cap Range(failed_exports) = {}
    /\ Range(completed_exports) \cap pending_exports = {}
    /\ Range(failed_exports) \cap pending_exports = {}
    /\ Range(completed_exports) \cup Range(failed_exports) \cup pending_exports
         = { export_mapping[i].eid : i \in 1..Len(export_mapping) }
    /\ cumulative_status_counts.COMPLETED + cumulative_status_counts.FAILED
         + cumulative_status_counts.IN_PROGRESS
         = Cardinality({ export_mapping[i].eid : i \in 1..Len(export_mapping) })
    /\ cumulative_status_counts.COMPLETED = Cardinality(Range(completed_exports))
    /\ cumulative_status_counts.FAILED = Cardinality(Range(failed_exports))
    /\ cumulative_status_counts.IN_PROGRESS = Cardinality(pending_exports)

\* The end of a second iteration: one export completed in the first, the
\* other reported IN_PROGRESS twice and is still pending.
C35_Witness ==
  /\ pc = "poll_top"
  /\ last_query.result = IN_PROGRESS
  /\ Len(completed_exports) = 1
  /\ pending_exports = { last_query.id }
  /\ current_status_counts = [ COMPLETED |-> 0, FAILED |-> 0, IN_PROGRESS |-> 1 ]
  /\ cumulative_status_counts = [ COMPLETED |-> 1, FAILED |-> 0, IN_PROGRESS |-> 1 ]

\* --------------------------------------------------------------- C36
\* Export id e has left the pending set of the poller.
LeftPending(e) ==
  /\ pc \in { "poll_top", "poll_iter" }
  /\ e \in { export_mapping[i].eid : i \in 1..Len(export_mapping) }
  /\ e \notin pending_exports

\* C36: an export id that has left the pending set (observed COMPLETED or
\* FAILED, or failed by a status-query error) is not queried again and
\* does not come back into the pending set; an id of the completed result
\* stays there and never enters the failed result, and the other way round.
C36_SettledIdsStaySettled ==
  [][ \A e \in ExportIds :
        /\ LeftPending(e) =>
             /\ ~ QueryStep(e)
             /\ e \notin pending_exports'
             /\ e \notin todo'
        /\ QueryStep(e) =>
             /\ e \in pending_exports
             /\ ~ \E i \in 1..Len(obs_log) : obs_log[i].id = e
        /\ e \in Range(completed_exports) =>
             /\ e \in Range(completed_exports')
             /\ e \notin Range(failed_exports')
        /\ e \in Range(failed_exports) =>
             /\ e \in Range(failed_exports')
             /\ e \notin Range(completed_exports')
    ]_vars

\* The end of an iteration in which the only query was that of an id that
\* then failed, the other id having completed in an earlier iteration.
C36_Witness ==
  /\ pc = "poll_top"
  /\ current_status_counts = [ COMPLETED |-> 0, FAILED |-> 1, IN_PROGRESS |-> 0 ]
  /\ cumulative_status_counts = [ COMPLETED |-> 1, FAILED |-> 1, IN_PROGRESS |-> 0 ]
  /\ Len(completed_exports) = 1
  /\ Len(failed_exports) = 1

\* --------------------------------------------------------------- C37
\* C37: every download attempted is that of an export id the poller
\* observed COMPLETED, no export id is attempted twice, and downloads are
\* attempted only once the polling loop has ended; an export that was
\* observed FAILED, whose status query raised, or that was left pending is
\* never attempted.
C37_DownloadsOnlyCompleted ==
  /\ download_log # << >> =>
       /\ poll_exit \in { "resolved", "timeout" }
       /\ pc \notin { "get_surveys", "filter_surveys", "request_exports",
                     "poll_top", "poll_iter" }
  /\ \A i \in 1..Len(download_log) :
       /\ \E k \in 1..Len(obs_log) :
            obs_log[k] = [ id |-> download_log[i].id, result |-> COMPLETED ]
       /\ \A j \in 1..Len(download_log) :
            download_log[j].id = download_log[i].id => j = i
       /\ \A k \in 1..Len(obs_log) :
            obs_log[k].id = download_log[i].id => obs_log[k].result = COMPLETED
       /\ download_log[i].id \notin Range(failed_exports)
       /\ download_log[i].id \notin pending_exports

\* A finished run that attempted one download, for the export that
\* completed, while the other export was observed FAILED.
C37_Witness ==
  /\ pc = "done"
  /\ Len(download_log) = 1
  /\ Len(obs_log) = 2
  /\ \E k \in 1..2 : obs_log[k].result = FAILED

\* --------------------------------------------------------------- C38
\* C38: a status query that reports a status that is none of SUBMITTED,
\* IN_PROGRESS, COMPLETED, FAILED (here UNKNOWN, the default for a missing
\* status field) leaves the id pending, leaves the completed and failed
\* results and the failures list as they were and adds to none of the
\* iteration's counts; and with no maximum wait time configured the loop
\* is not left while an id is pending (other than by a status query that
\* raises), so it goes on for as long as the status stays what it is.
C38_UnknownStatusStaysPending ==
  /\ [][ ( pc = "poll_iter" /\ last_query'.result = UNKNOWN
           /\ ( todo' # todo \/ pc' = "raised" ) ) =>
           /\ last_query'.id \in pending_exports'
           /\ pending_exports' = pending_exports
           /\ completed_exports' = completed_exports
           /\ failed_exports' = failed_exports
           /\ export_metadata' = export_metadata
           /\ current_status_counts' = current_status_counts
           /\ pc' \in { "poll_iter", "poll_top" } ]_vars
  /\ [][ ( pc \in { "poll_top", "poll_iter" } /\ pending_exports' # {}
           /\ ( cfg.max_wait_time = None \/ cfg.max_wait_time = 0 ) ) =>
           pc' \in { "poll_top", "poll_iter", "raised" } ]_vars
  /\ [] ( ( last_query.result = UNKNOWN /\ pc # "raised"
            /\ ( cfg.max_wait_time = None \/ cfg.max_wait_time = 0 ) ) =>
            /\ pc \in { "poll_top", "poll_iter" }
            /\ last_query.id \in pending_exports )

\* With no maximum wait time, an iteration has ended in which every id
\* reported UNKNOWN: all are pending and nothing was counted.
C38_Witness ==
  /\ pc = "poll_top"
  /\ cfg.max_wait_time = None
  /\ last_query.result = UNKNOWN
  /\ waited = {}
  /\ obs_log = << >>
  /\ Cardinality(pending_exports) = 2
  /\ clock = MaxClock
  /\ current_status_counts = [ COMPLETED |-> 0, FAILED |-> 0, IN_PROGRESS |-> 0 ]
  /\ cumulative_status_counts = [ COMPLETED |-> 0, FAILED |-> 0, IN_PROGRESS |-> 2 ]

\* --------------------------------------------------------------- C39
\* The export requested for the i-th filtered survey was observed COMPLETED
\* and downloaded successfully.
ExportDelivered(i) ==
  /\ i <= Len(submit_log)
  /\ submit_log[i].ok
  /\ \E k \in 1..Len(obs_log) :
       obs_log[k] = [ id |-> submit_log[i].eid, result |-> COMPLETED ]
  /\ \E k \in 1..Len(download_log) :
       download_log[k] = [ id |-> submit_log[i].eid, ok |-> TRUE ]

\* C39: once update_metadata has run with survey details enabled, surveys[]
\* of the report has one entry per filtered-in survey, in filtered order,
\* whatever happened to the survey's export; an entry carries export_details
\* iff export-status embedding is enabled and the export requested for that
\* survey was observed COMPLETED and downloaded successfully; and
\* total_surveys is the number of surveys fetched.
C39_SurveyEntries ==
  ( export_metadata.ended /\ cfg.include_survey_details ) =>
    /\ Len(export_metadata.surveys) = Len(filtered_surveys)
    /\ \A i \in 1..Len(filtered_surveys) :
         /\ export_metadata.surveys[i].sid = filtered_surveys[i]
         /\ ( export_metadata.surveys[i].export_details # 0 ) <=>
              ( cfg.include_export_status /\ ExportDelivered(i) )
    /\ export_metadata.total_surveys = Len(surveys)

\* --------------------------------------------------------------- C40
\* C40: a call of update_config that raises ConfigurationError leaves the
\* updates merged into the configuration in effect: the configuration after
\* the call is the merge, it does not validate, and it is not the one that
\* was in effect before when that one did validate.  A call of reload whose
\* file load fails leaves the configuration in effect as it was.
C40_RejectedUpdateStaysMerged ==
  [][ /\ pc' = "update_rejected" =>
           /\ \E u \in Updates :
                /\ u.kind # "not_a_mapping"
                /\ doc' = deep_update(doc, u)
           /\ validate_config(doc') = "ConfigurationError"
           /\ validate_config(doc) = "ok" => doc' # doc
      /\ pc' = "reload_failed" => doc' = doc
    ]_vars

\* An update that declared an environment "dev" with a base_url only was
\* rejected, and a reload then failed to load the file: the configuration
\* in effect is still the merged one (no file followed holds it), which
\* does not validate.
C40_Witness ==
  /\ pc = "reload_failed"
  /\ doc = [ ValidDoc EXCEPT !.declared =
               Append(@, EnvSettings("dev", "mapping", { "base_url" }, "real")) ]
  /\ doc \notin ValidationDocs \cup DateDocs
  /\ validate_config(doc) = "ConfigurationError"
====
